---- MODULE Spec2Model ----
(***************************************************************************)
(* Model of the Bright Smile Clinic lead-nurturing backend                 *)
(* (hemantacharya1/Mundos-Application, backend/app).                       *)
(*                                                                         *)
(* State: the three relations (leads, appointment_slots, communications),  *)
(* the background tasks scheduled by the API handlers, one reply-agent     *)
(* run (the LangGraph state bag plus the node the graph is about to run)   *)
(* the scheduler pass in progress (the rows it loaded, its position), the  *)
(* requests that have read the database and not yet written to it, and    *)
(* the bulk slot creation in progress.                                     *)
(* Every API handler, the scheduler job and the triage run are one action; *)
(* the reply agent takes one action per graph node. Where requests run     *)
(* side by side a handler is also given in two steps, its reads and its    *)
(* write, and the slot-generating loop is given iteration by iteration.    *)
(***************************************************************************)
EXTENDS Integers, Sequences, FiniteSets, TLC

VARIABLES leads, slots, comms, triageTasks, replyTasks, run, job, pending, bulk, resp

vars == <<leads, slots, comms, triageTasks, replyTasks, run, job, pending, bulk, resp>>

----------------------------------------------------------------------------
(* Bounds of the model *)

\* communications kept in the log before log-writing operations are cut off
MaxComms == 2

\* days since a lead's updated_at after which the clock stops being advanced
MaxAge == 4

----------------------------------------------------------------------------
(* Identifiers and enumerations *)

LeadIds == {"L1", "L2"}
\* a well-formed lead id that no lead row carries
UnknownLead == "Lx"
AnyLeadId == LeadIds \cup {UnknownLead}
SlotIds == {"S1", "S2"}
Null == "null"

\* models.LeadStatusEnum
LeadStatusEnum == {"new", "needs_immediate_attention", "nurturing", "responded",
                   "converted", "archived_no_response", "archived_not_interested"}

\* models.SlotStatusEnum
SlotStatusEnum == {"available", "booked", "cancelled"}

\* models.Lead: the columns the operations read or write; age is the time
\* since updated_at (now - updated_at) in days
\* a public lead id "<prefix>-<number>"; NoPublicId on a row that is not there
PublicId(prefix, number) == <<prefix, number>>
NoPublicId == PublicId(Null, 0)

NoLead == [exists |-> FALSE, status |-> "new", nurture_attempts |-> 0, ai_summary |-> Null,
           age |-> 0, first_name |-> Null, email |-> Null, inquiry_notes |-> Null,
           lead_id |-> NoPublicId, created_at |-> 0]

\* the column defaults of a new row
NewLead == [exists |-> TRUE, status |-> "new", nurture_attempts |-> 0, ai_summary |-> Null,
            age |-> 0, first_name |-> Null, email |-> Null, inquiry_notes |-> Null,
            lead_id |-> NoPublicId, created_at |-> 0]

\* Lead.updated_at, onupdate=func.now(): a row that a commit changes gets a
\* fresh updated_at
Touch(ls, written) ==
    [l \in DOMAIN ls |-> IF written[l] = ls[l] THEN ls[l] ELSE [written[l] EXCEPT !.age = 0]]

\* models.AppointmentSlot
NoSlot == [exists |-> FALSE, status |-> "available", lead_id |-> Null,
           reason_for_visit |-> Null, booked_by_method |-> Null]

FreshSlot == [exists |-> TRUE, status |-> "available", lead_id |-> Null,
              reason_for_visit |-> Null, booked_by_method |-> Null]

\* start and end of the catalogue slots on a small clock; the two overlap at 1
SlotStart(s) == IF s = "S1" THEN 0 ELSE 1
SlotEnd(s) == IF s = "S1" THEN 2 ELSE 3

\* models.Communication
Comm(l, t, d, c) == [lead_id |-> l, type |-> t, direction |-> d, content |-> c]

----------------------------------------------------------------------------
(* The record of the last operation handled: what it answered and sent *)

\* tool parameters as the caller received them: not a mapping at all (null),
\* or a mapping with the given keys; when = the date/time (or day) strings,
\* lead_id = the value under a "lead_id" key when there is one
Params(kind, keys, when, l) == [kind |-> kind, keys |-> keys, when |-> when, lead_id |-> l]

NullParams == Params("null", {}, Null, Null)

Resp(op, l, s, result, mails, raw, tool, params) ==
    [op |-> op, lead |-> l, slot |-> s, result |-> result, mails |-> mails,
     raw |-> raw, tool |-> tool, params |-> params]

NoResp == Resp("none", Null, Null, Null, 0, Null, Null, NullParams)

----------------------------------------------------------------------------
(* crud *)

\* str.lower on one character of an email address, which is the sequence of
\* its characters
Lower(c) == IF c = "A" THEN "a" ELSE IF c = "X" THEN "x" ELSE c

RECURSIVE lstrip(_)
\* str.strip, leading part
lstrip(e) == IF e # <<>> /\ Head(e) = " " THEN lstrip(Tail(e)) ELSE e

RECURSIVE rstrip(_)
\* str.strip, trailing part
rstrip(e) == IF e # <<>> /\ e[Len(e)] = " " THEN rstrip(SubSeq(e, 1, Len(e) - 1)) ELSE e

\* str.strip
strip(e) == rstrip(lstrip(e))

\* the positions of "@" in an address
Ats(e) == {i \in 1..Len(e) : e[i] = "@"}

\* the value EmailStr rejects
EmailError == <<"value_error">>

\* validate_email keeping the address as it was given once it is accepted
validate_email_verbatim(value) ==
    LET email == strip(value)
    IN  IF Cardinality(Ats(email)) # 1 \/ email[1] = "@" \/ email[Len(email)] = "@"
           \/ \E i \in 1..Len(email) : email[i] = " "
        THEN EmailError
        ELSE value

\* schemas.LeadBase.email, an EmailStr: pydantic strips the value, has it
\* validated (one "@" between a local part and a domain, no blanks) and keeps
\* the normalised address, the local part as given and the domain lower-cased
validate_email(value) ==
    LET email == strip(value)
    IN  IF Cardinality(Ats(email)) # 1 \/ email[1] = "@" \/ email[Len(email)] = "@"
           \/ \E i \in 1..Len(email) : email[i] = " "
        THEN EmailError
        ELSE LET at_index == CHOOSE i \in Ats(email) : TRUE
             IN  [i \in 1..Len(email) |-> IF i < at_index THEN email[i] ELSE Lower(email[i])]

\* schemas.LeadCreate: the body of a create request
LeadCreate(first_name, email, notes) ==
    [first_name |-> first_name, email |-> email, inquiry_notes |-> notes]

\* schemas.Lead (orm_mode): the three properties of a row as the API returns
\* them; email is validated as an EmailStr again on the way out
LeadOut(row) == LeadCreate(row.first_name, validate_email(row.email), row.inquiry_notes)

\* crud.get_lead_by_email
get_lead_by_email(ls, email) ==
    IF \E l \in LeadIds : ls[l].exists /\ ls[l].email = email
    THEN CHOOSE l \in LeadIds : ls[l].exists /\ ls[l].email = email
    ELSE Null

\* the greatest of a non-empty set of numbers
Max(S) == CHOOSE n \in S : \A m \in S : m <= n

\* the rows of the leads table
Rows(ls) == {l \in LeadIds : ls[l].exists}

\* Lead.created_at, server_default=func.now(): later than every row there is
now(ls) == IF Rows(ls) = {} THEN 1 ELSE Max({ls[l].created_at : l \in Rows(ls)}) + 1

\* crud.create_lead, lines 15-21: the number after the "-" of the lead_id of
\* the row created last, plus one, as "BS-LID-<number>"; 1 in an empty table
new_lead_id(ls) ==
    IF Rows(ls) = {}
    THEN PublicId("BS-LID", 1)
    ELSE LET last == CHOOSE l \in Rows(ls) : \A k \in Rows(ls) : ls[k].created_at <= ls[l].created_at
             last_num == ls[last].lead_id[2]
         IN  PublicId("BS-LID", last_num + 1)

\* a leads table without the unique constraint on lead_id
IntegrityError_unconstrained(ls, lead_id) == FALSE

\* Lead.lead_id, unique=True: the commit of a row whose lead_id another row
\* has raises IntegrityError
IntegrityError(ls, lead_id) == \E l \in Rows(ls) : ls[l].lead_id = lead_id

\* crud.create_lead, lines 23-29: the row of models.Lead(**lead.dict(),
\* lead_id=new_lead_id) under the id l; no row when the commit raises
add_lead(ls, l, lead, lead_id) ==
    IF IntegrityError(ls, lead_id)
    THEN ls
    ELSE [ls EXCEPT ![l] = [NewLead EXCEPT !.first_name = lead.first_name,
                                           !.email = lead.email,
                                           !.inquiry_notes = lead.inquiry_notes,
                                           !.lead_id = lead_id,
                                           !.created_at = now(ls)]]

\* crud.create_lead
create_lead(ls, l, lead) == add_lead(ls, l, lead, new_lead_id(ls))

\* crud.get_lead_by_id
get_lead_by_id(ls, l) == IF l \in LeadIds /\ ls[l].exists THEN l ELSE Null

\* crud.update_lead_status
update_lead_status(ls, l, status) ==
    IF get_lead_by_id(ls, l) # Null
    THEN Touch(ls, [ls EXCEPT ![l].status = status])
    ELSE ls

\* a log that keeps one entry per lead, the latest
create_communication_log_latest(cs, c) ==
    Append(SelectSeq(cs, LAMBDA x : x.lead_id # c.lead_id), c)

\* crud.create_communication_log
create_communication_log(cs, c) == Append(cs, c)

\* crud.get_communications_by_lead_id
get_communications_by_lead_id(cs, l) == SelectSeq(cs, LAMBDA c : c.lead_id = l)

\* crud.book_slot
book_slot(ss, s, l, reason, method) ==
    [ss EXCEPT ![s] = [@ EXCEPT !.status = "booked", !.lead_id = l,
                                !.reason_for_visit = reason,
                                !.booked_by_method = method]]

\* dateutil's parse of "<day> <time>": a point of the clock, or ValueError
ValueError == -1
WhenStrs == {"t0", "t1", "t2", "garbage"}
date_parse(w) ==
    CASE w = "t0" -> 0
      [] w = "t1" -> 1
      [] w = "t2" -> 2
      [] OTHER -> ValueError

\* crud.find_available_slot_by_natural_language: the slots the query's
\* first() may return (the query has no ORDER BY); empty = None
find_available_slot_by_natural_language(ss, w) ==
    IF date_parse(w) = ValueError
    THEN {}
    ELSE {s \in SlotIds : /\ ss[s].exists
                          /\ ss[s].status = "available"
                          /\ SlotStart(s) <= date_parse(w)
                          /\ SlotEnd(s) > date_parse(w)}

\* crud.get_available_slots_by_natural_language_day
get_available_slots_by_natural_language_day(ss, w) ==
    IF date_parse(w) = ValueError
    THEN {}
    ELSE {s \in SlotIds : ss[s].exists /\ ss[s].status = "available"}

----------------------------------------------------------------------------
(* clinic_tools *)

TypeError == "TypeError"

\* Python's binding of f(**params, <injected keywords>) to a function whose
\* parameters (all required) are signature: TRUE when the call goes through,
\* FALSE when it raises TypeError (params is not a mapping, a keyword is
\* given twice, a parameter is missing or a keyword is unexpected)
BindArgs(params, signature, injected) ==
    /\ params.kind = "dict"
    /\ params.keys \cap injected = {}
    /\ params.keys \cup injected = signature

\* what a tool call does: the tables afterwards, the text returned, the
\* slot booked (if any) and the number of mails that went out
Outcome(ss, ls, result, s, mails) ==
    [slots |-> ss, leads |-> ls, result |-> result, slot |-> s, mails |-> mails]

\* book_appointment leaving the lead's status as it is (line 132 dropped)
book_appointment_unconverted(ss, ls, w, reason, l) ==
    LET found == find_available_slot_by_natural_language(ss, w)
    IN  IF found = {}
        THEN {Outcome(ss, ls, "book_unavailable", Null, 0)}
        ELSE UNION {
               LET booked == book_slot(ss, s, l, reason, "vapi_ai")
               IN  IF get_lead_by_id(ls, l) # Null
                   THEN {Outcome(booked, ls, "book_ok", s, IF ok THEN 1 ELSE 0) :
                            ok \in BOOLEAN}
                   ELSE {Outcome(booked, ls, "book_ok", s, 0)}
               : s \in found}

\* clinic_tools.book_appointment(date, time, reason, lead_id)
book_appointment(ss, ls, w, reason, l) ==
    LET found == find_available_slot_by_natural_language(ss, w)
    IN  IF found = {}
        THEN {Outcome(ss, ls, "book_unavailable", Null, 0)}
        ELSE UNION {
               LET booked == book_slot(ss, s, l, reason, "vapi_ai")
               IN  IF get_lead_by_id(ls, l) # Null
                   THEN {Outcome(booked, update_lead_status(ls, l, "converted"),
                                 "book_ok", s, IF ok THEN 1 ELSE 0) : ok \in BOOLEAN}
                   ELSE {Outcome(booked, ls, "book_ok", s, 0)}
               : s \in found}

\* clinic_tools.get_available_slots(day)
get_available_slots(ss, w) ==
    IF get_available_slots_by_natural_language_day(ss, w) = {}
    THEN "slots_none"
    ELSE "slots_list"

\* clinic_tools.get_plan_details(query): nothing found, the LLM's summary,
\* or the fixed fallback when the summarising call fails
get_plan_details == {"plan_sorry", "plan_summary", "plan_fallback"}

----------------------------------------------------------------------------
(* agents/reply_agent: the decision *)

Missing == "MISSING"
FixedRationale == "Could not parse LLM response."
NextActions == {"use_tool", "reply_to_user", "escalate_to_human"}

\* reply_agent.AgentDecision
Decision(a, th, tool, params, q, html) ==
    [next_action |-> a, thought |-> th, tool_to_use |-> tool, tool_parameters |-> params,
     kb_search_query |-> q, personalized_html_content |-> html]

\* state['decision'] = None
NoDecision == Decision(Null, Null, Null, NullParams, Null, Null)

\* what the chat-completion call gives back: kind tells a failed call, a text
\* that is not JSON and a JSON value that is not an object from a JSON
\* object; obj holds the object's keys (Missing = key absent)
Raw(name, kind, obj) == [name |-> name, kind |-> kind, obj |-> obj]

MissingParams == Params(Missing, {}, Null, Null)
StringParams == Params("string", {}, Null, Null)
BookKeys == {"date", "time", "reason"}

\* the tool calls the model may ask for: (tool_to_use, tool_parameters)
ToolCalls ==
    {<<"search_knowledge_base", MissingParams>>,
     <<"get_plan_details", Params("dict", {"query"}, Null, Null)>>,
     <<"get_available_slots", Params("dict", {"day"}, "t0", Null)>>,
     <<"get_available_slots", Params("dict", {}, Null, Null)>>,
     <<"book_appointment", Params("dict", BookKeys, "t0", Null)>>,
     <<"book_appointment", Params("dict", BookKeys, "garbage", Null)>>,
     <<"book_appointment", Params("dict", BookKeys \cup {"lead_id"}, "t0", "L2")>>,
     <<"book_appointment", NullParams>>,
     <<"send_brochure", MissingParams>>,
     <<Missing, MissingParams>>}

\* responses that are missing, are not JSON or do not fit AgentDecision
MalformedResponses ==
    {Raw("no_response", "error", NoDecision),
     Raw("not_json", "text", NoDecision),
     Raw("json_array", "json_nonobject", NoDecision),
     Raw("no_action", "object", Decision(Missing, "thought", Missing, MissingParams, Missing, Missing)),
     Raw("bad_action", "object", Decision("call_patient", "thought", Missing, MissingParams, Missing, Missing)),
     Raw("no_thought", "object", Decision("escalate_to_human", Missing, Missing, MissingParams, Missing, Missing)),
     Raw("params_not_dict", "object",
         Decision("use_tool", "thought", "book_appointment", StringParams, Missing, Missing))}

\* responses that fit AgentDecision
WellFormedResponses ==
    {Raw("escalate", "object", Decision("escalate_to_human", "thought", Missing, MissingParams, Missing, Missing)),
     Raw("reply", "object", Decision("reply_to_user", "thought", Missing, MissingParams, Missing, "html")),
     Raw("reply_no_content", "object", Decision("reply_to_user", "thought", Missing, MissingParams, Missing, Missing))}
    \cup {Raw("use_tool", "object", Decision("use_tool", "thought", c[1], c[2], "q", Missing)) :
            c \in ToolCalls}

LLMResponses == MalformedResponses \cup WellFormedResponses

\* dict.setdefault(key, None)
setdefault(v) == IF v = Missing THEN Null ELSE v

\* pydantic's validation of AgentDecision(**decision_data)
Validates(d) ==
    /\ d.next_action \in NextActions
    /\ d.thought \notin {Missing, Null}
    /\ d.tool_parameters.kind \in {"null", "dict"}

\* the except branch of decision_node
FallbackDecision == Decision("escalate_to_human", FixedRationale, Null, NullParams, Null, Null)

\* ParseDecision without the validation of AgentDecision: whatever JSON
\* object came back is taken as the decision
ParseDecisionUnvalidated(raw) ==
    IF raw.kind # "object"
    THEN FallbackDecision
    ELSE [raw.obj EXCEPT
            !.tool_to_use = setdefault(@),
            !.tool_parameters = IF @.kind = Missing THEN NullParams ELSE @,
            !.kb_search_query = setdefault(@),
            !.personalized_html_content = setdefault(@)]

\* decision_node, lines 114-131: the decision it leaves in the state
ParseDecision(raw) ==
    IF raw.kind # "object"
    THEN FallbackDecision
    ELSE LET d == [raw.obj EXCEPT
                     !.tool_to_use = setdefault(@),
                     !.tool_parameters = IF @.kind = Missing THEN NullParams ELSE @,
                     !.kb_search_query = setdefault(@),
                     !.personalized_html_content = setdefault(@)]
         IN  IF Validates(d) THEN d ELSE FallbackDecision

\* a router with an iteration cap: a second use_tool decision ends the run
router_capped(state) ==
    IF state.decision = NoDecision THEN "decision_node"
    ELSE IF state.decision.next_action = "use_tool"
    THEN IF state.tool_output # Null \/ state.kb_info # Null THEN "END" ELSE "execute_tool_node"
    ELSE IF state.decision.next_action = "reply_to_user" THEN "send_reply_node"
    ELSE IF state.decision.next_action = "escalate_to_human" THEN "escalate_to_human_node"
    ELSE "END"

\* reply_agent.router
router(state) ==
    IF state.decision = NoDecision THEN "decision_node"
    ELSE IF state.decision.next_action = "use_tool" THEN "execute_tool_node"
    ELSE IF state.decision.next_action = "reply_to_user" THEN "send_reply_node"
    ELSE IF state.decision.next_action = "escalate_to_human" THEN "escalate_to_human_node"
    ELSE "END"

----------------------------------------------------------------------------
(* agents/reply_agent: the graph state and the nodes *)

\* reply_agent.ReplyGraphState, with the node the graph runs next
IdleRun == [node |-> "idle", lead_id |-> Null, conversation_history |-> <<>>,
            decision |-> NoDecision, tool_output |-> Null, kb_info |-> Null]

\* run_reply_analyzer, lines 279-288: the initial graph state
InitialState(cs, l) ==
    [IdleRun EXCEPT !.node = "decision_node",
                    !.lead_id = l,
                    !.conversation_history =
                        [i \in 1..Len(get_communications_by_lead_id(cs, l)) |->
                            <<get_communications_by_lead_id(cs, l)[i].direction,
                              get_communications_by_lead_id(cs, l)[i].content>>]]

\* decision_node, lines 62-66: the tool context put into the prompt
previous_output_context(state) ==
    IF state.tool_output # Null THEN state.tool_output
    ELSE IF state.kb_info # Null THEN state.kb_info
    ELSE Null

KnownTools == {"search_knowledge_base", "get_plan_details", "get_available_slots",
               "book_appointment"}
ToolNotFound == "Error: Tool not found."

\* StoreToolResult that keeps the other slot's earlier result
StoreToolResultKeeping(state, tool, result) ==
    LET stored ==
          IF tool = "search_knowledge_base"
          THEN [state EXCEPT !.kb_info = result]
          ELSE IF tool \in KnownTools
          THEN [state EXCEPT !.tool_output = result]
          ELSE state
    IN  [stored EXCEPT !.decision = NoDecision]

\* execute_tool_node, lines 145-169: where a tool's result is kept
StoreToolResult(state, tool, result) ==
    LET stored ==
          IF tool = "search_knowledge_base"
          THEN [state EXCEPT !.kb_info = result, !.tool_output = Null]
          ELSE IF tool \in KnownTools
          THEN [state EXCEPT !.tool_output = result, !.kb_info = Null]
          ELSE state
    IN  [stored EXCEPT !.decision = NoDecision]

\* a dispatch whose last branch is not guarded by the tool's name: every
\* name that is not one of the first three books an appointment
execute_tool_open(state, ss, ls) ==
    LET tool == state.decision.tool_to_use
        params == state.decision.tool_parameters
    IN  IF tool = "search_knowledge_base"
        THEN {Outcome(ss, ls, r, Null, 0) : r \in {"kb_found", "kb_none"}}
        ELSE IF tool = "get_plan_details"
        THEN {Outcome(ss, ls, r, Null, 0) : r \in get_plan_details}
        ELSE IF tool = "get_available_slots"
        THEN {Outcome(ss, ls, get_available_slots(ss, "t0"), Null, 0)}
        ELSE book_appointment(ss, ls, "t0", "checkup", state.lead_id)

\* execute_tool_node: the tool dispatch. Each outcome is the tool call's
\* Outcome; result TypeError = the call raised before the tool ran
execute_tool(state, ss, ls) ==
    LET tool == state.decision.tool_to_use
        params == state.decision.tool_parameters
    IN  IF tool = "search_knowledge_base"
        THEN {Outcome(ss, ls, r, Null, 0) : r \in {"kb_found", "kb_none"}}
        ELSE IF tool = "get_plan_details"
        THEN IF BindArgs(params, {"query"}, {})
             THEN {Outcome(ss, ls, r, Null, 0) : r \in get_plan_details}
             ELSE {Outcome(ss, ls, TypeError, Null, 0)}
        ELSE IF tool = "get_available_slots"
        THEN IF BindArgs(params, {"day"}, {})
             THEN {Outcome(ss, ls, get_available_slots(ss, params.when), Null, 0)}
             ELSE {Outcome(ss, ls, TypeError, Null, 0)}
        ELSE IF tool = "book_appointment"
        THEN IF BindArgs(params, BookKeys \cup {"lead_id"}, {"lead_id"})
             THEN book_appointment(ss, ls, params.when, "checkup", state.lead_id)
             ELSE {Outcome(ss, ls, TypeError, Null, 0)}
        ELSE {Outcome(ss, ls, ToolNotFound, Null, 0)}

\* send_reply_node: the Communication it logs
ReplyComm(l) == Comm(l, "email", "outgoing_auto", "reply")

\* an escalation that flags the lead but drops the rationale
escalate_to_human_unexplained(ls, l, decision) ==
    IF get_lead_by_id(ls, l) # Null
    THEN Touch(ls, [ls EXCEPT ![l].status = "needs_immediate_attention"])
    ELSE ls

\* escalate_to_human_node, lines 228-233
escalate_to_human(ls, l, decision) ==
    IF get_lead_by_id(ls, l) # Null
    THEN Touch(ls, [ls EXCEPT ![l].status = "needs_immediate_attention",
                              ![l].ai_summary = decision.thought])
    ELSE ls

\* run_reply_analyzer up to the graph's entry point
StartReplyRun(l) ==
    /\ run.node = "idle"
    /\ l \in replyTasks
    /\ replyTasks' = replyTasks \ {l}
    /\ run' = IF get_lead_by_id(leads, l) # Null THEN InitialState(comms, l) ELSE IdleRun
    /\ resp' = Resp("run_reply_analyzer", l, Null, Null, 0, Null, Null, NullParams)
    /\ UNCHANGED <<leads, slots, comms, triageTasks, job, pending, bulk>>

\* decision_node followed by the conditional edge (router)
DecisionNode(responses) ==
    /\ run.node = "decision_node"
    /\ \E raw \in responses :
         /\ run' = [run EXCEPT !.decision = ParseDecision(raw),
                               !.node = router([run EXCEPT !.decision = ParseDecision(raw)])]
         /\ resp' = Resp("decision_node", run.lead_id, Null, previous_output_context(run),
                         0, raw.name, Null, NullParams)
    /\ UNCHANGED <<leads, slots, comms, triageTasks, replyTasks, job, pending, bulk>>

\* execute_tool_node followed by the edge back to decision_node; a call that
\* raises ends the run (invoke re-raises, run_reply_analyzer closes the session)
ExecuteToolNode ==
    /\ run.node = "execute_tool_node"
    /\ \E o \in execute_tool(run, slots, leads) :
         /\ slots' = o.slots
         /\ leads' = o.leads
         /\ run' = IF o.result = TypeError
                   THEN IdleRun
                   ELSE [StoreToolResult(run, run.decision.tool_to_use, o.result)
                           EXCEPT !.node = "decision_node"]
         /\ resp' = Resp("execute_tool_node", run.lead_id, o.slot, o.result, o.mails, Null,
                         run.decision.tool_to_use, run.decision.tool_parameters)
    /\ UNCHANGED <<comms, triageTasks, replyTasks, job, pending, bulk>>

\* send_reply_node followed by the edge to END; re.sub on a missing
\* personalized_html_content raises and ends the run
SendReplyNode ==
    /\ run.node = "send_reply_node"
    /\ IF run.decision.personalized_html_content = Null
       THEN /\ run' = IdleRun
            /\ resp' = Resp("send_reply_node", run.lead_id, Null, TypeError, 0, Null, Null,
                            NullParams)
            /\ UNCHANGED comms
       ELSE /\ Len(comms) < MaxComms
            /\ \E ok \in BOOLEAN :
                 resp' = Resp("send_reply_node", run.lead_id, Null, "sent",
                              IF ok THEN 1 ELSE 0, Null, Null, NullParams)
            /\ comms' = create_communication_log(comms, ReplyComm(run.lead_id))
            /\ run' = [run EXCEPT !.node = "END"]
    /\ UNCHANGED <<leads, slots, triageTasks, replyTasks, job, pending, bulk>>

\* escalate_to_human_node followed by the edge to END
EscalateToHumanNode ==
    /\ run.node = "escalate_to_human_node"
    /\ leads' = escalate_to_human(leads, run.lead_id, run.decision)
    /\ run' = [run EXCEPT !.node = "END"]
    /\ resp' = Resp("escalate_to_human_node", run.lead_id, Null, "escalated", 0, Null, Null,
                    NullParams)
    /\ UNCHANGED <<slots, comms, triageTasks, replyTasks, job, pending, bulk>>

\* the graph has reached END: invoke returns and run_reply_analyzer ends
FinishReplyRun ==
    /\ run.node = "END"
    /\ run' = IdleRun
    /\ resp' = Resp("run_reply_analyzer_end", run.lead_id, Null, Null, 0, Null, Null, NullParams)
    /\ UNCHANGED <<leads, slots, comms, triageTasks, replyTasks, job, pending, bulk>>

----------------------------------------------------------------------------
(* api/appointments *)

\* create_bulk_slots: a request whose range covers the catalogue slots in S
CreateBulkSlots(S) ==
    /\ S # {}
    /\ \A s \in S : ~slots[s].exists
    /\ slots' = [s \in SlotIds |-> IF s \in S THEN FreshSlot ELSE slots[s]]
    /\ resp' = Resp("create_bulk_slots", Null, Null, "201", 0, Null, Null, NullParams)
    /\ UNCHANGED <<leads, comms, triageTasks, replyTasks, run, job, pending, bulk>>

\* the dates a bulk request may name: a Thursday, a Friday and a Saturday
Days == 0..2

\* date.weekday(): Monday is 0, Saturday 5
weekday(d) == d + 3

\* the length of a day on the clock of SlotStart and SlotEnd
DayLen == 4

\* datetime.combine(date, time)
combine(d, t) == d * DayLen + t

\* the earliest datetime there is: an addition that leads before it raises
\* OverflowError
MinTime == 0 - 2

\* the length after which the model stops counting slots_to_create
MaxSlots == 4

\* CreateBulkSlotsRequest with well-formed dates and times, or dates that
\* are not ISO dates (ValueError)
BulkRequest(start_date, end_date, start_t, end_t, minutes) ==
    [start_date |-> start_date, end_date |-> end_date, start_time_of_day |-> start_t,
     end_time_of_day |-> end_t, slot_duration_minutes |-> minutes]

\* the local variables of create_bulk_slots while it runs: in_day = the
\* inner while loop is running for current_date; n = len(slots_to_create),
\* made = the slots of the catalogue among them
BulkState(active, current_date, end_dt, start_t, end_t, duration, in_day, current_time, n, made) ==
    [active |-> active, current_date |-> current_date, end_dt |-> end_dt, start_t |-> start_t,
     end_t |-> end_t, duration |-> duration, in_day |-> in_day,
     current_time |-> current_time, n |-> n, made |-> made]

IdleBulk == BulkState(FALSE, 0, 0, 0, 0, 0, FALSE, 0, 0, {})

\* create_bulk_slots, lines 22-32: the request is parsed (400 when a date
\* is malformed) and the loop over the dates begins
StartBulkSlots(request) ==
    /\ ~bulk.active
    /\ IF request.start_date = ValueError
       THEN /\ resp' = Resp("create_bulk_slots", Null, Null, "400", 0, Null, Null, NullParams)
            /\ UNCHANGED bulk
       ELSE /\ bulk' = BulkState(TRUE, request.start_date, request.end_date,
                                 request.start_time_of_day, request.end_time_of_day,
                                 request.slot_duration_minutes, FALSE, 0, 0, {})
            /\ resp' = Resp("create_bulk_slots_begin", Null, Null, "running", 0, Null, Null,
                            NullParams)
    /\ UNCHANGED <<leads, slots, comms, triageTasks, replyTasks, run, job, pending>>

\* create_bulk_slots, the outer loop (lines 33-37, 46) and the end of the
\* handler (50-51): past end_dt the collected slots are written in one
\* commit, which raises when a start_time is taken already
BulkDateStep ==
    /\ bulk.active
    /\ ~bulk.in_day
    /\ IF bulk.current_date > bulk.end_dt
       THEN /\ bulk' = IdleBulk
            /\ IF \E s \in bulk.made : slots[s].exists
               THEN /\ resp' = Resp("create_bulk_slots", Null, Null, "500", 0, Null, Null,
                                    NullParams)
                    /\ UNCHANGED slots
               ELSE /\ slots' = [s \in SlotIds |-> IF s \in bulk.made THEN FreshSlot
                                                    ELSE slots[s]]
                    /\ resp' = Resp("create_bulk_slots", Null, Null, "201", 0, Null, Null,
                                    NullParams)
       ELSE /\ bulk' = IF weekday(bulk.current_date) < 5
                       THEN [bulk EXCEPT !.in_day = TRUE,
                                         !.current_time = combine(bulk.current_date, bulk.start_t)]
                       ELSE [bulk EXCEPT !.current_date = @ + 1]
            /\ resp' = Resp("create_bulk_slots_step", Null, Null, "running", 0, Null, Null,
                            NullParams)
            /\ UNCHANGED slots
    /\ UNCHANGED <<leads, comms, triageTasks, replyTasks, run, job, pending>>

\* create_bulk_slots, one round of the inner while loop (lines 39-45): a
\* slot from current_time to current_time + duration is collected and
\* current_time moves on by duration, whatever its sign
BulkSlotStep ==
    /\ bulk.active
    /\ bulk.in_day
    /\ IF bulk.current_time < combine(bulk.current_date, bulk.end_t)
       THEN IF bulk.current_time + bulk.duration < MinTime
            THEN /\ bulk' = IdleBulk
                 /\ resp' = Resp("create_bulk_slots", Null, Null, "500", 0, Null, Null,
                                 NullParams)
            ELSE /\ bulk' = [bulk EXCEPT
                               !.n = IF @ < MaxSlots THEN @ + 1 ELSE @,
                               !.made = @ \cup {s \in SlotIds :
                                                  /\ SlotStart(s) = bulk.current_time
                                                  /\ SlotEnd(s) = bulk.current_time + bulk.duration},
                               !.current_time = @ + bulk.duration]
                 /\ resp' = Resp("create_bulk_slots_step", Null, Null, "running", 0, Null, Null,
                                 NullParams)
       ELSE /\ bulk' = [bulk EXCEPT !.in_day = FALSE, !.current_date = @ + 1]
            /\ resp' = Resp("create_bulk_slots_step", Null, Null, "running", 0, Null, Null,
                            NullParams)
    /\ UNCHANGED <<leads, slots, comms, triageTasks, replyTasks, run, job, pending>>

\* book_status without the status guard (line 72 dropped)
book_status_unguarded(ss, ls, s, l) ==
    IF ~ss[s].exists THEN "404"
    ELSE IF get_lead_by_id(ls, l) = Null THEN "404"
    ELSE "200"

\* book_status without the lead lookup (lines 76-78 dropped)
book_status_lead_unchecked(ss, ls, s, l) ==
    IF ~ss[s].exists THEN "404"
    ELSE IF ss[s].status # "available" THEN "409"
    ELSE "200"

\* book_an_appointment_slot: the HTTP status it answers with
book_status(ss, ls, s, l) ==
    IF ~ss[s].exists THEN "404"
    ELSE IF ss[s].status # "available" THEN "409"
    ELSE IF get_lead_by_id(ls, l) = Null THEN "404"
    ELSE "200"

\* PUT /appointments/{slot_id}/book
BookAnAppointmentSlot(s, l) ==
    /\ slots' = IF book_status(slots, leads, s, l) = "200"
                THEN book_slot(slots, s, l, "cleaning", "staff")
                ELSE slots
    /\ resp' = Resp("book_an_appointment_slot", l, s, book_status(slots, leads, s, l), 0,
                    Null, Null, NullParams)
    /\ UNCHANGED <<leads, comms, triageTasks, replyTasks, run, job, pending, bulk>>

----------------------------------------------------------------------------
(* api/leads *)

\* Lead.inquiry_notes as submitted with the lead; the second lead came with
\* an empty inquiry
inquiry_notes(l) == IF l = "L1" THEN "crown price" ELSE ""

\* the request body each lead of the catalogue was created from
LeadData(l) ==
    IF l = "L1" THEN LeadCreate("Ann", <<"a", "@", "x">>, inquiry_notes(l))
    ELSE LeadCreate("Bea", <<"A", "@", "x">>, inquiry_notes(l))

\* POST /leads (create_single_lead) with the body body, l being the id the
\* new row gets: the body is validated as a LeadCreate (422 when the email
\* is not one), an existing row with the email answers 409, else the lead
\* row is written and its triage task queued
CreateSingleLead(l, body) ==
    /\ ~leads[l].exists
    /\ LET email == validate_email(body.email)
           lead_data == [body EXCEPT !.email = email]
       IN  IF email = EmailError
           THEN /\ resp' = Resp("create_single_lead", Null, Null, "422", 0, body, Null,
                                NullParams)
                /\ UNCHANGED <<leads, triageTasks>>
           ELSE IF get_lead_by_email(leads, email) # Null
           THEN /\ resp' = Resp("create_single_lead", Null, Null, "409", 0, body, Null,
                                NullParams)
                /\ UNCHANGED <<leads, triageTasks>>
           ELSE IF IntegrityError(leads, new_lead_id(leads))
           THEN /\ resp' = Resp("create_single_lead", Null, Null, "500", 0, body, Null,
                                NullParams)
                /\ UNCHANGED <<leads, triageTasks>>
           ELSE /\ leads' = create_lead(leads, l, lead_data)
                /\ triageTasks' = triageTasks \cup {l}
                /\ resp' = Resp("create_single_lead", l, Null, "200", 0, body, Null,
                                NullParams)
    /\ UNCHANGED <<slots, comms, replyTasks, run, job, pending, bulk>>

\* what an upload leaves behind: the table, the leads it created and the
\* status it answers with
UploadResult(ls, created, result) == [leads |-> ls, created |-> created, result |-> result]

\* upload_leads_csv, lines 48-66: the loop over the rows of the file. A row
\* whose Email, as written in the file, is that of an existing lead is
\* skipped; otherwise the row is validated as a LeadCreate (an email that is
\* not one raises, which the handler turns into a 500 after the rows before
\* it were committed) and created under a fresh id
RECURSIVE upload_loop(_, _, _, _)
upload_loop(ls, created, rows, i) ==
    IF i > Len(rows)
    THEN UploadResult(ls, created, "200")
    ELSE IF get_lead_by_email(ls, rows[i].email) # Null
    THEN upload_loop(ls, created, rows, i + 1)
    ELSE IF validate_email(rows[i].email) = EmailError \/ IntegrityError(ls, new_lead_id(ls))
    THEN UploadResult(ls, created, "500")
    ELSE LET l == CHOOSE k \in LeadIds : ~ls[k].exists
             lead_data == [rows[i] EXCEPT !.email = validate_email(@)]
         IN  upload_loop(create_lead(ls, l, lead_data), created \cup {l}, rows, i + 1)

\* POST /leads/upload with a CSV file of the given rows: the triage tasks of
\* the created leads are attached to the response, which an upload that ends
\* in the 500 does not return
UploadLeadsCsv(rows) ==
    /\ Len(rows) <= Cardinality({k \in LeadIds : ~leads[k].exists})
    /\ LET upload == upload_loop(leads, {}, rows, 1)
       IN  /\ leads' = upload.leads
           /\ triageTasks' = IF upload.result = "200"
                             THEN triageTasks \cup upload.created
                             ELSE triageTasks
           /\ resp' = Resp("upload_leads_csv", Null, Null, upload.result,
                           0, rows, Null, NullParams)
    /\ UNCHANGED <<slots, comms, replyTasks, run, job, pending, bulk>>

\* GET /leads/{lead_id} (get_single_lead): the row as schemas.Lead
GetSingleLead(l) ==
    /\ resp' = IF get_lead_by_id(leads, l) = Null
               THEN Resp("get_single_lead", l, Null, "404", 0, Null, Null, NullParams)
               ELSE Resp("get_single_lead", l, Null, "200", 0, LeadOut(leads[l]), Null,
                         NullParams)
    /\ UNCHANGED <<leads, slots, comms, triageTasks, replyTasks, run, job, pending, bulk>>

\* PUT /leads/{lead_id}/status
UpdateLeadStatusEndpoint(l, status) ==
    /\ leads' = update_lead_status(leads, l, status)
    /\ resp' = Resp("update_lead_status_endpoint", l, Null,
                    IF get_lead_by_id(leads, l) = Null THEN "404" ELSE "200", 0,
                    Null, Null, NullParams)
    /\ UNCHANGED <<slots, comms, triageTasks, replyTasks, run, job, pending, bulk>>

\* POST /leads/{lead_id}/notes
AddManualNote(l) ==
    /\ IF get_lead_by_id(leads, l) = Null
       THEN /\ resp' = Resp("add_manual_note", l, Null, "404", 0, Null, Null, NullParams)
            /\ UNCHANGED comms
       ELSE /\ Len(comms) < MaxComms
            /\ comms' = create_communication_log(comms,
                            Comm(l, "note", "outgoing_manual", "note"))
            /\ resp' = Resp("add_manual_note", l, Null, "200", 0, Null, Null, NullParams)
    /\ UNCHANGED <<leads, slots, triageTasks, replyTasks, run, job, pending, bulk>>

\* POST /leads/{lead_id}/reply: the reply is logged when the mail went out
SendManualReply(l) ==
    /\ IF get_lead_by_id(leads, l) = Null
       THEN /\ resp' = Resp("send_manual_reply", l, Null, "404", 0, Null, Null, NullParams)
            /\ UNCHANGED comms
       ELSE \E success \in BOOLEAN :
              IF ~success
              THEN /\ resp' = Resp("send_manual_reply", l, Null, "500", 0, Null, Null,
                                   NullParams)
                   /\ UNCHANGED comms
              ELSE /\ Len(comms) < MaxComms
                   /\ comms' = create_communication_log(comms,
                                   Comm(l, "email", "outgoing_manual", "manual_reply"))
                   /\ resp' = Resp("send_manual_reply", l, Null, "200", 1, Null, Null,
                                   NullParams)
    /\ UNCHANGED <<leads, slots, triageTasks, replyTasks, run, job, pending, bulk>>

\* POST /leads/{lead_id}/test-ai-call; phone = the lead has a phone number,
\* started = Vapi accepted the call and answered with a results list
TestToolBasedAiCall(l) ==
    /\ IF get_lead_by_id(leads, l) = Null
       THEN /\ resp' = Resp("test_tool_based_ai_call", l, Null, "404", 0, Null, Null,
                            NullParams)
            /\ UNCHANGED comms
       ELSE \E phone \in BOOLEAN, started \in BOOLEAN :
              IF ~phone \/ ~started
              THEN /\ resp' = Resp("test_tool_based_ai_call", l, Null,
                                   IF ~phone THEN "400" ELSE "500", 0, Null, Null, NullParams)
                   /\ UNCHANGED comms
              ELSE /\ Len(comms) < MaxComms
                   /\ comms' = create_communication_log(comms,
                                   Comm(l, "phone_call", "outgoing_auto", "test_call"))
                   /\ resp' = Resp("test_tool_based_ai_call", l, Null, "200", 0, Null, Null,
                                   NullParams)
    /\ UNCHANGED <<leads, slots, triageTasks, replyTasks, run, job, pending, bulk>>

----------------------------------------------------------------------------
(* agents/triage_agent *)

\* a triage that hands a non-emergency lead back as new
status_to_set_new(is_emergency) ==
    IF is_emergency THEN "needs_immediate_attention" ELSE "new"

\* action_node, line 224
status_to_set(is_emergency) ==
    IF is_emergency THEN "needs_immediate_attention" ELSE "nurturing"

\* an action_node that starts the counter on the emergency branch as well
triage_update_counting(ls, l, is_emergency) ==
    IF get_lead_by_id(ls, l) # Null
    THEN Touch(ls, [ls EXCEPT ![l].status = status_to_set(is_emergency),
                              ![l].nurture_attempts = 1])
    ELSE ls

\* action_node, lines 224-230
triage_update(ls, l, is_emergency) ==
    IF get_lead_by_id(ls, l) # Null
    THEN Touch(ls, [ls EXCEPT ![l].status = status_to_set(is_emergency),
                              ![l].nurture_attempts = IF is_emergency THEN @ ELSE 1])
    ELSE ls

\* triage_agent.TriageResult / the classification keys of GraphState, with
\* kb_info and whether the knowledge base was searched
TriageCategories == {"Emergency", "Insurance_Query", "Scheduling_Query", "Service_Inquiry",
                     "General_Follow_Up"}

TriageResult(category, summary, is_emergency, q) ==
    [category |-> category, summary |-> summary, is_emergency |-> is_emergency,
     kb_search_query |-> q, kb_info |-> Null, searched |-> FALSE]

\* a run that did not get to triage_node
NoTriage == TriageResult(Null, Null, FALSE, Null)

\* responses of the classification call that do not fit TriageResult; in a
\* response is_emergency is the JSON literal, "true" or "false"
MalformedTriageResponses ==
    {Raw("no_response", "error", NoTriage),
     Raw("not_json", "text", NoTriage),
     Raw("json_array", "json_nonobject", NoTriage),
     Raw("bad_category", "object", TriageResult("Billing", "invoice", "true", "q")),
     Raw("no_summary", "object", TriageResult("Emergency", Missing, "true", Missing)),
     Raw("no_is_emergency", "object", TriageResult("Service_Inquiry", "crown", Missing, "q"))}

\* responses that fit TriageResult
WellFormedTriageResponses ==
    {Raw("emergency", "object", TriageResult("Emergency", "tooth pain", "true", Missing)),
     Raw("emergency_query", "object", TriageResult("Service_Inquiry", "broken crown", "true", "q")),
     Raw("service", "object", TriageResult("Service_Inquiry", "crown", "false", "q")),
     Raw("service_empty_query", "object", TriageResult("Service_Inquiry", "crown", "false", "")),
     Raw("general", "object", TriageResult("General_Follow_Up", "hello", "false", Null))}

TriageResponses == MalformedTriageResponses \cup WellFormedTriageResponses

\* pydantic's validation of TriageResult(**result_json)
ValidatesTriage(d) ==
    /\ d.category \in TriageCategories
    /\ d.summary \notin {Missing, Null}
    /\ d.is_emergency \in {"true", "false"}

\* triage_node, the except branch
TriageFallback(inquiry) == TriageResult("General_Follow_Up", inquiry, FALSE, Null)

\* a triage_node that takes the response as the classification once it is a
\* JSON object
triage_node_unvalidated(raw, inquiry) ==
    IF raw.kind # "object"
    THEN TriageFallback(inquiry)
    ELSE [raw.obj EXCEPT !.kb_search_query = setdefault(@),
                         !.is_emergency = (@ = "true")]

\* triage_node: the classification it leaves in the graph state
triage_node(raw, inquiry) ==
    IF raw.kind = "object" /\ ValidatesTriage(raw.obj)
    THEN [raw.obj EXCEPT !.kb_search_query = setdefault(@),
                         !.is_emergency = (@ = "true")]
    ELSE TriageFallback(inquiry)

\* triage_agent.router
triage_router(state) ==
    IF state.kb_search_query \notin {Null, ""}
    THEN "kb_lookup_node"
    ELSE "generate_email_content_node"

\* kb_lookup_node; found = the semantic search returned something
kb_lookup_node(state, found) ==
    IF state.kb_search_query \in {Null, ""}
    THEN [state EXCEPT !.kb_info = Null]
    ELSE [state EXCEPT !.searched = TRUE,
                       !.kb_info = IF found THEN "kb_context" ELSE Null]

\* the record of a triage run: as Resp, with the graph state it ended in
TriageResp(l, result, mails, raw, state) ==
    [op |-> "run_triage_agent", lead |-> l, slot |-> Null, result |-> result, mails |-> mails,
     raw |-> raw, tool |-> Null, params |-> NullParams, state |-> state]

\* run_triage_agent: triage_node classifies, the router sends the run through
\* kb_lookup_node when there is a search query, generate_email_content_node
\* drafts the mail (its LLM call is made on the non-emergency path only, is
\* not guarded and may raise, which ends the run before action_node),
\* action_node commits the status, sends the mail and logs it
RunTriageAgent(l, responses) ==
    /\ l \in triageTasks
    /\ triageTasks' = triageTasks \ {l}
    /\ IF get_lead_by_id(leads, l) = Null
       THEN /\ resp' = TriageResp(l, "no_lead", 0, Null, NoTriage)
            /\ UNCHANGED <<leads, comms>>
       ELSE \E raw \in responses, found \in BOOLEAN, drafted \in BOOLEAN, ok \in BOOLEAN :
              LET classified == triage_node(raw, leads[l].inquiry_notes)
                  state == IF triage_router(classified) = "kb_lookup_node"
                           THEN kb_lookup_node(classified, found)
                           ELSE classified
              IN  IF ~state.is_emergency /\ ~drafted
                  THEN /\ resp' = TriageResp(l, "raised", 0, raw.name, state)
                       /\ UNCHANGED <<leads, comms>>
                  ELSE /\ Len(comms) < MaxComms
                       /\ leads' = triage_update(leads, l, state.is_emergency)
                       /\ comms' = create_communication_log(comms,
                                       Comm(l, "email", "outgoing_auto", "triage"))
                       /\ resp' = TriageResp(l, IF state.is_emergency THEN "emergency"
                                                ELSE "nurture",
                                             IF ok THEN 1 ELSE 0, raw.name, state)
    /\ UNCHANGED <<slots, replyTasks, run, job, pending, bulk>>

----------------------------------------------------------------------------
(* scheduler/nurture_engine *)

\* timedelta(<keyword>=n) in days: datetime.timedelta has a keyword days and
\* none called day, with which the constructor raises TypeError
timedelta(keyword, n) == [raised |-> keyword # "days", days |-> n]

\* "time_since_last_update > <threshold>" and the branch it opens; building
\* the threshold may raise
Elapsed(elapsed, threshold, step) ==
    IF threshold.raised THEN TypeError
    ELSE IF elapsed > threshold.days THEN step
    ELSE "skip"

\* a scheduler without the counter test: whoever has waited a day gets the SMS
nurture_step_ungated(a, elapsed) ==
    IF elapsed > 1 THEN "sms" ELSE "skip"

\* a scheduler that archives after the voice call already
nurture_step_early_archive(a, elapsed) ==
    IF a = 1 THEN Elapsed(elapsed, timedelta("day", 1), "sms")
    ELSE IF a = 2 THEN Elapsed(elapsed, timedelta("day", 2), "call")
    ELSE IF a >= 3 THEN "archive"
    ELSE "skip"

\* a scheduler whose steps wait for the counter only, not for the days
nurture_step_unthresholded(a, elapsed) ==
    IF a = 1 THEN "sms"
    ELSE IF a = 2 THEN "call"
    ELSE IF a = 3 THEN "email"
    ELSE IF a >= 4 THEN "archive"
    ELSE "skip"

\* nurture_and_recall_job, lines 107-153: the branch of the if/elif chain
\* taken for a lead with a nurture_attempts whose updated_at is elapsed days
\* old. The right operand of each "and" is only evaluated when the counter
\* test before it holds
nurture_step(a, elapsed) ==
    IF a = 1 THEN Elapsed(elapsed, timedelta("day", 1), "sms")
    ELSE IF a = 2 THEN Elapsed(elapsed, timedelta("day", 2), "call")
    ELSE IF a = 3 THEN Elapsed(elapsed, timedelta("day", 3), "email")
    ELSE IF a >= 4 THEN "archive"
    ELSE "skip"

\* a scheduler that archives a silent lead as not interested
archive_status_declined == "archived_not_interested"

\* nurture_and_recall_job, line 153: the status an exhausted lead is given
archive_status == "archived_no_response"

\* an archive step that leaves a lead alone unless it is still nurturing
archive_lead_if_nurturing(ls, l) ==
    IF ls[l].status = "nurturing" THEN update_lead_status(ls, l, archive_status) ELSE ls

\* nurture_and_recall_job, line 153: the archive branch
archive_lead(ls, l) == update_lead_status(ls, l, archive_status)

\* lead.nurture_attempts += 1 followed by db.commit()
increment_attempts(ls, l) == Touch(ls, [ls EXCEPT ![l].nurture_attempts = @ + 1])

\* the Communication a step logs after a successful send
StepComm(l, step) ==
    CASE step = "sms" -> Comm(l, "sms", "outgoing_auto", "follow_up_sms")
      [] step = "call" -> Comm(l, "phone_call", "outgoing_auto", "follow_up_call")
      [] OTHER -> Comm(l, "email", "outgoing_auto", "follow_up_email")

\* what a pass leaves behind; result TypeError = the job raised
PassResult(ls, cs, result) == [leads |-> ls, comms |-> cs, result |-> result]

\* the for loop over nurturing_leads in the order the query returned them;
\* sent[l] = the send (or the start of the call) for lead l succeeds,
\* phone[l] = the lead has a phone number
RECURSIVE nurture_loop(_, _, _, _, _, _)
nurture_loop(ls, cs, order, i, sent, phone) ==
    IF i > Len(order)
    THEN PassResult(ls, cs, "done")
    ELSE LET l == order[i]
             step == nurture_step(ls[l].nurture_attempts, ls[l].age)
             logged == create_communication_log(cs, StepComm(l, step))
         IN  IF step = TypeError
             THEN PassResult(ls, cs, TypeError)
             ELSE IF step \in {"sms", "email"}
             THEN IF sent[l]
                  THEN nurture_loop(increment_attempts(ls, l), logged, order, i + 1, sent, phone)
                  ELSE nurture_loop(ls, cs, order, i + 1, sent, phone)
             ELSE IF step = "call"
             THEN IF ~phone[l]
                  THEN nurture_loop(ls, cs, order, i + 1, sent, phone)
                  ELSE IF sent[l]
                  THEN nurture_loop(increment_attempts(ls, l), logged, order, i + 1, sent, phone)
                  ELSE nurture_loop(increment_attempts(ls, l), cs, order, i + 1, sent, phone)
             ELSE IF step = "archive"
             THEN nurture_loop(archive_lead(ls, l), cs, order, i + 1, sent, phone)
             ELSE nurture_loop(ls, cs, order, i + 1, sent, phone)

\* the orders in which a query without ORDER BY may return the rows of S
Orders(S) ==
    {o \in [1..Cardinality(S) -> S] : \A i, j \in 1..Cardinality(S) : i # j => o[i] # o[j]}

\* a pass that loads every lead, whatever its status
nurturing_leads_any(ls) == {l \in LeadIds : ls[l].exists}

\* the leads the pass loads: status nurturing
nurturing_leads(ls) == {l \in LeadIds : ls[l].exists /\ ls[l].status = "nurturing"}

\* nurture_and_recall_job
NurtureAndRecallJob ==
    /\ \E order \in Orders(nurturing_leads(leads)),
          sent \in [nurturing_leads(leads) -> BOOLEAN],
          phone \in [nurturing_leads(leads) -> BOOLEAN] :
         LET pass == nurture_loop(leads, comms, order, 1, sent, phone)
         IN  /\ leads' = pass.leads
             /\ comms' = pass.comms
             /\ resp' = Resp("nurture_and_recall_job", Null, Null, pass.result,
                             Len(pass.comms) - Len(comms), Null, Null, NullParams)
    /\ UNCHANGED <<slots, triageTasks, replyTasks, run, job, pending, bulk>>

\* the pass in progress: the rows the query returned, in its order, and the
\* position of the for loop in them
IdleJob == [active |-> FALSE, order |-> <<>>, i |-> 0]

\* nurture_and_recall_job, lines 94-100: the session is opened and the
\* nurturing leads are loaded; with none the pass is over at once
LoadNurturingLeads ==
    /\ ~job.active
    /\ \E order \in Orders(nurturing_leads(leads)) :
         job' = IF order = <<>> THEN IdleJob ELSE [active |-> TRUE, order |-> order, i |-> 1]
    /\ resp' = Resp("nurture_query", Null, Null,
                    IF nurturing_leads(leads) = {} THEN "done" ELSE "loaded", 0,
                    Null, Null, NullParams)
    /\ UNCHANGED <<leads, slots, comms, triageTasks, replyTasks, run, pending, bulk>>

\* nurture_and_recall_job, lines 102-153: one iteration of the for loop, for
\* the next row the pass loaded, whatever has happened to the lead since. The
\* branch is chosen by the row's nurture_attempts and updated_at, its status
\* is not read again, and update_lead_status writes without comparing. raw
\* records the status the lead had in the table when the iteration began
NurtureLeadStep ==
    /\ job.active
    /\ \E sent \in [{job.order[job.i]} -> BOOLEAN], phone \in [{job.order[job.i]} -> BOOLEAN] :
         LET l == job.order[job.i]
             pass == nurture_loop(leads, comms, <<l>>, 1, sent, phone)
         IN  /\ Len(pass.comms) <= MaxComms
             /\ leads' = pass.leads
             /\ comms' = pass.comms
             /\ job' = IF pass.result = TypeError \/ job.i = Len(job.order)
                       THEN IdleJob
                       ELSE [job EXCEPT !.i = @ + 1]
             /\ resp' = Resp("nurture_lead_step", l, Null,
                             IF pass.result = TypeError THEN TypeError
                             ELSE nurture_step(leads[l].nurture_attempts, leads[l].age),
                             Len(pass.comms) - Len(comms), leads[l].status, Null, NullParams)
    /\ UNCHANGED <<slots, triageTasks, replyTasks, run, pending, bulk>>

\* a day passes: every lead's updated_at is a day older
Tick ==
    /\ \A l \in LeadIds : leads[l].age < MaxAge
    /\ leads' = [l \in LeadIds |-> [leads[l] EXCEPT !.age = IF leads[l].exists THEN @ + 1 ELSE @]]
    /\ resp' = Resp("tick", Null, Null, Null, 0, Null, Null, NullParams)
    /\ UNCHANGED <<slots, comms, triageTasks, replyTasks, run, job, pending, bulk>>

----------------------------------------------------------------------------
(* api/webhooks *)

\* the To address of an inbound mail, as far as the handler reads it: the
\* local part before the first "+", and the tag between that "+" and the "@"
\* after it (Missing = the address has no "+...@")
To(local, tag) == [local |-> local, tag |-> tag]

\* the tracking address the application puts into Reply-To: replies+<id>@<domain>
ReplyTo(l) == To("replies", l)

\* an address of the clinic without a tag
UntaggedAddress == To("info", Missing)

\* handle_email_reply, lines 45-49: re.search(r'\+(.*?)\@', to_address) and
\* group(1); Null = no match
lead_id_str(to) == IF to.tag = Missing THEN Null ELSE to.tag

\* POST /webhooks/email-reply for a mail sent to the address to
HandleEmailReply(to) ==
    LET l == lead_id_str(to)
    IN  IF l = Null
        THEN /\ resp' = Resp("handle_email_reply", l, Null, "400", 0, to.local, Null, NullParams)
             /\ UNCHANGED <<leads, slots, comms, triageTasks, replyTasks, run, job, pending, bulk>>
        ELSE IF get_lead_by_id(leads, l) = Null
        THEN /\ resp' = Resp("handle_email_reply", l, Null, "404", 0, to.local, Null, NullParams)
             /\ UNCHANGED <<leads, slots, comms, triageTasks, replyTasks, run, job, pending, bulk>>
        ELSE /\ Len(comms) < MaxComms
             /\ l \notin replyTasks
             /\ comms' = create_communication_log(comms,
                             Comm(l, "email", "incoming", "user_reply"))
             /\ leads' = IF leads[l].status = "nurturing"
                         THEN update_lead_status(leads, l, "responded")
                         ELSE leads
             /\ replyTasks' = replyTasks \cup {l}
             /\ resp' = Resp("handle_email_reply", l, Null, "200", 0, to.local, Null,
                             NullParams)
             /\ UNCHANGED <<slots, triageTasks, run, job, pending, bulk>>

\* the tool calls a voice call may post: (function name, parsed arguments)
VapiBookCalls ==
    {<<"book_appointment", Params("dict", BookKeys, w, Null)>> : w \in WhenStrs}
    \cup {<<"book_appointment", Params("dict", BookKeys \cup {"lead_id"}, "t0", "L2")>>}

VapiToolCalls ==
    VapiBookCalls
    \cup {<<"get_knowledge", Params("dict", {"query"}, Null, Null)>>,
          <<"get_available_slots", Params("dict", {"day"}, "t1", Null)>>,
          <<"book_appointment", Params("dict", {}, Null, Null)>>,
          <<"transfer_call", Params("dict", {}, Null, Null)>>}

\* handle_vapi_tool_calls, lines 116-125: one tool call of a tool-calls message
vapi_tool_call(ss, ls, tool, params, lead_id) ==
    IF tool = "get_knowledge"
    THEN IF BindArgs(params, {"query"}, {})
         THEN {Outcome(ss, ls, r, Null, 0) : r \in get_plan_details}
         ELSE {Outcome(ss, ls, TypeError, Null, 0)}
    ELSE IF tool = "get_available_slots"
    THEN IF BindArgs(params, {"day"}, {})
         THEN {Outcome(ss, ls, get_available_slots(ss, params.when), Null, 0)}
         ELSE {Outcome(ss, ls, TypeError, Null, 0)}
    ELSE IF tool = "book_appointment"
    THEN IF lead_id = Null
         THEN {Outcome(ss, ls, "technical_issue", Null, 0)}
         ELSE IF BindArgs(params, BookKeys \cup {"lead_id"}, {"lead_id"})
         THEN book_appointment(ss, ls, params.when, "checkup", lead_id)
         ELSE {Outcome(ss, ls, TypeError, Null, 0)}
    ELSE {Outcome(ss, ls, Null, Null, 0)}

\* POST /webhooks/vapi-tool-handler with a tool-calls message of one call;
\* lead_id is the call metadata's lead id (Null = none)
HandleVapiToolCalls(call, lead_id) ==
    /\ \E o \in vapi_tool_call(slots, leads, call[1], call[2], lead_id) :
         /\ slots' = o.slots
         /\ leads' = o.leads
         /\ resp' = Resp("handle_vapi_tool_calls", lead_id, o.slot, o.result, o.mails, Null,
                         call[1], call[2])
    /\ UNCHANGED <<comms, triageTasks, replyTasks, run, job, pending, bulk>>

\* POST /webhooks/vapi-tool-handler with an end-of-call-report; lead_id is
\* the call metadata's lead id (Null = none), which is not looked up
HandleVapiEndOfCallReport(lead_id) ==
    /\ IF lead_id = Null
       THEN UNCHANGED comms
       ELSE /\ Len(comms) < MaxComms
            /\ comms' = create_communication_log(comms,
                            Comm(lead_id, "phone_call", "incoming", "call_summary"))
    /\ resp' = Resp("handle_vapi_end_of_call_report", lead_id, Null, "200", 0, Null, Null,
                    NullParams)
    /\ UNCHANGED <<leads, slots, triageTasks, replyTasks, run, job, pending, bulk>>

----------------------------------------------------------------------------
(* Requests running side by side: each has its own session, reads, and     *)
(* commits later                                                           *)

\* how many requests may be between their reads and their write at a time
MaxPending == 2

\* a request that has done its reads: what it is about to write
PendingReq(op, l, s, body, lead_id) ==
    [op |-> op, lead |-> l, slot |-> s, body |-> body, lead_id |-> lead_id]

NoBody == LeadCreate(Null, <<>>, Null)

\* create_single_lead up to crud.create_lead's query for the last lead_id
\* (leads.py 101-105, crud.py 15-21): the body is validated, a lead with the
\* email answers 409, else the new public id is computed from the rows the
\* session sees
CreateLeadQuery(l, body) ==
    /\ ~leads[l].exists
    /\ \A p \in pending : p.lead # l
    /\ Cardinality(pending) < MaxPending
    /\ LET email == validate_email(body.email)
           lead_data == [body EXCEPT !.email = email]
       IN  IF email = EmailError
           THEN /\ resp' = Resp("create_single_lead", Null, Null, "422", 0, body, Null,
                                NullParams)
                /\ UNCHANGED pending
           ELSE IF get_lead_by_email(leads, email) # Null
           THEN /\ resp' = Resp("create_single_lead", Null, Null, "409", 0, body, Null,
                                NullParams)
                /\ UNCHANGED pending
           ELSE /\ pending' = pending \cup {PendingReq("create_single_lead", l, Null,
                                                       lead_data, new_lead_id(leads))}
                /\ resp' = Resp("create_lead_query", l, Null, "pending", 0, body, Null,
                                NullParams)
    /\ UNCHANGED <<leads, slots, comms, triageTasks, replyTasks, run, job, bulk>>

\* crud.create_lead from db.add on and the rest of create_single_lead
\* (crud.py 23-30, leads.py 107-110): the commit raises IntegrityError when
\* the public id has been taken meanwhile, and the request ends in a 500
\* with no lead and no triage task
CreateLeadCommit(p) ==
    /\ p \in pending
    /\ p.op = "create_single_lead"
    /\ pending' = pending \ {p}
    /\ IF IntegrityError(leads, p.lead_id)
       THEN /\ resp' = Resp("create_lead_commit", Null, Null, "500", 0, p.body, Null,
                            NullParams)
            /\ UNCHANGED <<leads, triageTasks>>
       ELSE /\ leads' = add_lead(leads, p.lead, p.body, p.lead_id)
            /\ triageTasks' = triageTasks \cup {p.lead}
            /\ resp' = Resp("create_lead_commit", p.lead, Null, "200", 0, p.body, Null,
                            NullParams)
    /\ UNCHANGED <<slots, comms, replyTasks, run, job, bulk>>

\* book_an_appointment_slot up to its checks (appointments.py 69-78): a
\* request that fails one is answered at once
BookSlotQuery(s, l) ==
    /\ Cardinality(pending) < MaxPending
    /\ IF book_status(slots, leads, s, l) # "200"
       THEN /\ resp' = Resp("book_an_appointment_slot", l, s, book_status(slots, leads, s, l),
                            0, Null, Null, NullParams)
            /\ UNCHANGED pending
       ELSE /\ pending' = pending \cup {PendingReq("book_an_appointment_slot", l, s, NoBody,
                                                   NoPublicId)}
            /\ resp' = Resp("book_slot_query", l, s, "pending", 0, Null, Null, NullParams)
    /\ UNCHANGED <<leads, slots, comms, triageTasks, replyTasks, run, job, bulk>>

\* book_an_appointment_slot from crud.book_slot on (appointments.py 80-88,
\* crud.py 106-114): the slot object the session loaded is set to booked and
\* committed; the UPDATE names the row by its id only
BookSlotCommit(p) ==
    /\ p \in pending
    /\ p.op = "book_an_appointment_slot"
    /\ pending' = pending \ {p}
    /\ slots' = book_slot(slots, p.slot, p.lead, "cleaning", "staff")
    /\ resp' = Resp("book_slot_commit", p.lead, p.slot, "200", 0, Null, Null, NullParams)
    /\ UNCHANGED <<leads, comms, triageTasks, replyTasks, run, job, bulk>>

\* clinic_tools.book_appointment up to the slot it found (lines 113-118)
BookAppointmentQuery(w, l) ==
    /\ Cardinality(pending) < MaxPending
    /\ IF find_available_slot_by_natural_language(slots, w) = {}
       THEN /\ resp' = Resp("book_appointment_query", l, Null, "book_unavailable", 0, Null,
                            "book_appointment", Params("dict", BookKeys, w, Null))
            /\ UNCHANGED pending
       ELSE \E s \in find_available_slot_by_natural_language(slots, w) :
              /\ pending' = pending \cup {PendingReq("book_appointment", l, s, NoBody,
                                                     NoPublicId)}
              /\ resp' = Resp("book_appointment_query", l, s, "pending", 0, Null,
                              "book_appointment", Params("dict", BookKeys, w, Null))
    /\ UNCHANGED <<leads, slots, comms, triageTasks, replyTasks, run, job, bulk>>

\* clinic_tools.book_appointment from crud.book_slot on (lines 121-152): the
\* slot is written, an existing lead is converted and mailed, and the
\* success text is returned
BookAppointmentCommit(p) ==
    /\ p \in pending
    /\ p.op = "book_appointment"
    /\ pending' = pending \ {p}
    /\ slots' = book_slot(slots, p.slot, p.lead, "checkup", "vapi_ai")
    /\ leads' = update_lead_status(leads, p.lead, "converted")
    /\ \E ok \in BOOLEAN :
         resp' = Resp("book_appointment_commit", p.lead, p.slot, "book_ok",
                      IF ok /\ get_lead_by_id(leads, p.lead) # Null THEN 1 ELSE 0,
                      Null, "book_appointment", NullParams)
    /\ UNCHANGED <<comms, triageTasks, replyTasks, run, job, bulk>>

----------------------------------------------------------------------------
(* The system *)

\* an empty database
Init ==
    /\ leads = [l \in LeadIds |-> NoLead]
    /\ slots = [s \in SlotIds |-> NoSlot]
    /\ comms = <<>>
    /\ triageTasks = {}
    /\ replyTasks = {}
    /\ run = IdleRun
    /\ job = IdleJob
    /\ pending = {}
    /\ bulk = IdleBulk
    /\ resp = NoResp

\* the lead ids a request can name: the existing leads and an unknown id
RequestLeadIds == {l \in LeadIds : leads[l].exists} \cup {UnknownLead}

\* one classification of each outcome: emergency and not
BasicTriageResponses ==
    {r \in WellFormedTriageResponses : r.name \in {"emergency", "general"}}

\* The reply agent at work for one lead, with every response the model may give
Next ==
    \/ CreateSingleLead("L1", LeadData("L1"))
    \/ RunTriageAgent("L1", BasicTriageResponses)
    \/ CreateBulkSlots({"S1"})
    \/ \E to \in {ReplyTo(l) : l \in RequestLeadIds} \cup {UntaggedAddress} :
         HandleEmailReply(to)
    \/ StartReplyRun("L1")
    \/ DecisionNode(LLMResponses)
    \/ ExecuteToolNode
    \/ SendReplyNode
    \/ EscalateToHumanNode
    \/ FinishReplyRun

Spec == Init /\ [][Next]_vars

\* the responses that make the agent book, and one that ends the run
BookingResponses ==
    {r \in WellFormedResponses :
        r.name = "escalate" \/ (r.name = "use_tool" /\ r.obj.tool_to_use = "book_appointment")}

\* Booking through the endpoint, the voice webhook and the reply agent, for
\* two overlapping slots
NextBooking ==
    \/ CreateSingleLead("L1", LeadData("L1"))
    \/ \E S \in SUBSET SlotIds : CreateBulkSlots(S)
    \/ \E s \in SlotIds, l \in RequestLeadIds : BookAnAppointmentSlot(s, l)
    \/ \E call \in VapiToolCalls, l \in RequestLeadIds \cup {Null} : HandleVapiToolCalls(call, l)
    \/ HandleEmailReply(ReplyTo("L1"))
    \/ StartReplyRun("L1")
    \/ DecisionNode(BookingResponses)
    \/ ExecuteToolNode
    \/ EscalateToHumanNode
    \/ FinishReplyRun

SpecBooking == Init /\ [][NextBooking]_vars

\* seed_data.create_sample_data: a nurturing lead is seeded with 1..5 attempts
SeedAttempts == 1..5

\* seed_data.generate_lead_id: "LEAD-<six digits>", here the first two
SeedNumber(l) == IF l = "L1" THEN 100000 ELSE 100001

SeededLead(l, a) ==
    [create_lead([k \in LeadIds |-> NoLead], l, LeadData(l))[l]
        EXCEPT !.status = "nurturing", !.nurture_attempts = a,
               !.lead_id = PublicId("LEAD", SeedNumber(l)),
               !.created_at = IF l = "L1" THEN 1 ELSE 2]

\* an empty database, or one seeded with a nurturing lead
InitSeeded ==
    /\ \/ leads = [l \in LeadIds |-> NoLead]
       \/ \E a \in SeedAttempts :
            leads = [l \in LeadIds |-> IF l = "L1" THEN SeededLead(l, a) ELSE NoLead]
    /\ slots = [s \in SlotIds |-> NoSlot]
    /\ comms = <<>>
    /\ triageTasks = {}
    /\ replyTasks = {}
    /\ run = IdleRun
    /\ job = IdleJob
    /\ pending = {}
    /\ bulk = IdleBulk
    /\ resp = NoResp

\* one response of each kind: escalate, reply, book, unparsable
LifecycleResponses ==
    {r \in LLMResponses :
        \/ r.name \in {"escalate", "reply", "not_json"}
        \/ /\ r.name = "use_tool"
           /\ r.obj.tool_to_use = "book_appointment"
           /\ r.obj.tool_parameters = Params("dict", BookKeys, "t0", Null)}

\* Every writer of a lead's status: triage, scheduler, inbound-reply webhook,
\* reply agent, booking tool and the manual status endpoint
NextLifecycle ==
    \/ CreateSingleLead("L1", LeadData("L1"))
    \/ RunTriageAgent("L1", BasicTriageResponses)
    \/ \E l \in RequestLeadIds, status \in LeadStatusEnum : UpdateLeadStatusEndpoint(l, status)
    \/ LoadNurturingLeads
    \/ NurtureLeadStep
    \/ CreateBulkSlots({"S1"})
    \/ HandleEmailReply(ReplyTo("L1"))
    \/ \E l \in RequestLeadIds :
         HandleVapiToolCalls(<<"book_appointment", Params("dict", BookKeys, "t0", Null)>>, l)
    \/ StartReplyRun("L1")
    \/ DecisionNode(LifecycleResponses)
    \/ ExecuteToolNode
    \/ SendReplyNode
    \/ EscalateToHumanNode
    \/ FinishReplyRun

SpecLifecycle == InitSeeded /\ [][NextLifecycle]_vars

\* seed_data.create_sample_data, lines 150-165: a seeded lead was updated up
\* to two weeks ago
SeededAges == 0..MaxAge

\* a database seeded with one or two nurturing leads
InitNurture ==
    /\ \E a1 \in SeedAttempts, a2 \in SeedAttempts \cup {0}, g1 \in SeededAges, g2 \in SeededAges :
         leads = [l \in LeadIds |->
                    IF l = "L1" THEN [SeededLead(l, a1) EXCEPT !.age = g1]
                    ELSE IF a2 = 0 THEN NoLead
                    ELSE [SeededLead(l, a2) EXCEPT !.age = g2]]
    /\ slots = [s \in SlotIds |-> NoSlot]
    /\ comms = <<>>
    /\ triageTasks = {}
    /\ replyTasks = {}
    /\ run = IdleRun
    /\ job = IdleJob
    /\ pending = {}
    /\ bulk = IdleBulk
    /\ resp = NoResp

\* The scheduler at work on seeded leads while days pass and staff move
\* leads in and out of nurturing
NextNurture ==
    \/ Tick
    \/ NurtureAndRecallJob
    \/ \E l \in RequestLeadIds, status \in {"nurturing", "responded"} :
         UpdateLeadStatusEndpoint(l, status)

SpecNurture == InitNurture /\ [][NextNurture]_vars

\* nurture_and_recall_job in which every send that is attempted succeeds
DeliveringPass ==
    /\ \E order \in Orders(nurturing_leads(leads)),
          phone \in [nurturing_leads(leads) -> BOOLEAN] :
         LET sent == [l \in nurturing_leads(leads) |-> TRUE]
             pass == nurture_loop(leads, comms, order, 1, sent, phone)
         IN  /\ leads' = pass.leads
             /\ comms' = pass.comms
             /\ resp' = Resp("nurture_and_recall_job", Null, Null, pass.result,
                             Len(pass.comms) - Len(comms), Null, Null, NullParams)
    /\ UNCHANGED <<slots, triageTasks, replyTasks, run, job, pending, bulk>>

\* The scheduler alone on seeded leads
NextNurtureFair ==
    \/ Tick
    \/ NurtureAndRecallJob

\* with time advancing and the interval trigger of main.py starting pass
\* after pass, among them again and again one whose sends succeed
SpecNurtureFair ==
    /\ InitNurture
    /\ [][NextNurtureFair]_vars
    /\ WF_vars(Tick)
    /\ WF_vars(DeliveringPass)

\* a database seeded with one or two nurturing leads last updated on the
\* same day
InitReplies ==
    /\ \E a1 \in SeedAttempts, a2 \in SeedAttempts \cup {0}, g \in {0, MaxAge} :
         leads = [l \in LeadIds |->
                    IF l = "L1" THEN [SeededLead(l, a1) EXCEPT !.age = g]
                    ELSE IF a2 = 0 THEN NoLead
                    ELSE [SeededLead(l, a2) EXCEPT !.age = g]]
    /\ slots = [s \in SlotIds |-> NoSlot]
    /\ comms = <<>>
    /\ triageTasks = {}
    /\ replyTasks = {}
    /\ run = IdleRun
    /\ job = IdleJob
    /\ pending = {}
    /\ bulk = IdleBulk
    /\ resp = NoResp

\* the To addresses of inbound mail: tagged with a lead id or not, sent to
\* replies or to another mailbox
InboundAddresses ==
    {To(local, tag) : local \in {"replies", "other"}, tag \in RequestLeadIds}
    \cup {UntaggedAddress}

\* one response that escalates and one that replies
RepliesResponses == {r \in WellFormedResponses : r.name \in {"escalate", "reply"}}

\* Leads answering by mail while scheduler passes are under way and the
\* reply agent works on the answers
NextReplies ==
    \/ LoadNurturingLeads
    \/ NurtureLeadStep
    \/ \E to \in InboundAddresses : HandleEmailReply(to)
    \/ \E l \in LeadIds : StartReplyRun(l)
    \/ DecisionNode(RepliesResponses)
    \/ SendReplyNode
    \/ EscalateToHumanNode
    \/ FinishReplyRun

SpecReplies == InitReplies /\ [][NextReplies]_vars

\* the response that makes the agent reply
LogResponses == {r \in WellFormedResponses : r.name = "reply"}

\* Every writer of the communication log: triage, the inbound webhooks, the
\* reply agent, the scheduler and the staff endpoints
NextLog ==
    \/ CreateSingleLead("L1", LeadData("L1"))
    \/ RunTriageAgent("L1", BasicTriageResponses)
    \/ \E l \in RequestLeadIds : AddManualNote(l)
    \/ \E l \in RequestLeadIds : SendManualReply(l)
    \/ \E l \in RequestLeadIds : TestToolBasedAiCall(l)
    \/ \E l \in RequestLeadIds \cup {Null} : HandleVapiEndOfCallReport(l)
    \/ \E to \in InboundAddresses : HandleEmailReply(to)
    \/ StartReplyRun("L1")
    \/ DecisionNode(LogResponses)
    \/ SendReplyNode
    \/ FinishReplyRun
    \/ LoadNurturingLeads
    \/ NurtureLeadStep

SpecLog == InitSeeded /\ [][NextLog]_vars

\* request bodies of the create-lead operation: a plain one, one without a
\* first name whose email has an upper-case domain (the same mailbox as the
\* first), one whose email has an upper-case local part and a leading blank,
\* and one whose email is not an address
LeadBodies ==
    {LeadCreate("Ann", <<"a", "@", "x">>, "crown price"),
     LeadCreate(Null, <<"a", "@", "X">>, ""),
     LeadCreate("Bea", <<" ", "A", "@", "x">>, "crown price"),
     LeadCreate("Bea", <<"a", "x">>, "")}

\* Leads created from any of the bodies and fetched again, with the triage
\* run, the scheduler, the inbound webhooks, the reply agent and the voice
\* booking tool at work in between
NextRoundTrip ==
    \/ \E l \in LeadIds, body \in LeadBodies : CreateSingleLead(l, body)
    \/ \E l \in RequestLeadIds : GetSingleLead(l)
    \/ \E l \in LeadIds : RunTriageAgent(l, BasicTriageResponses)
    \/ LoadNurturingLeads
    \/ NurtureLeadStep
    \/ CreateBulkSlots({"S1"})
    \/ \E l \in LeadIds : HandleEmailReply(ReplyTo(l))
    \/ \E l \in RequestLeadIds :
         HandleVapiToolCalls(<<"book_appointment", Params("dict", BookKeys, "t0", Null)>>, l)
    \/ StartReplyRun("L1")
    \/ DecisionNode(RepliesResponses)
    \/ SendReplyNode
    \/ EscalateToHumanNode
    \/ FinishReplyRun

SpecRoundTrip == Init /\ [][NextRoundTrip]_vars

\* CSV files of one or two rows
UploadFiles == {<<b>> : b \in LeadBodies} \cup {<<b, c>> : b \in LeadBodies, c \in LeadBodies}

\* Leads coming in through the create-lead operation and through CSV
\* uploads, one request at a time, and their triage runs
NextIntake ==
    \/ \E l \in LeadIds, body \in LeadBodies : CreateSingleLead(l, body)
    \/ \E rows \in UploadFiles : UploadLeadsCsv(rows)
    \/ \E l \in LeadIds : RunTriageAgent(l, BasicTriageResponses)
    \/ \E l \in RequestLeadIds : GetSingleLead(l)

SpecIntake == Init /\ [][NextIntake]_vars

\* Create requests running side by side, on an empty or a seeded database
NextCreate ==
    \/ \E l \in LeadIds, body \in LeadBodies : CreateLeadQuery(l, body)
    \/ \E p \in pending : CreateLeadCommit(p)
    \/ \E l \in LeadIds : RunTriageAgent(l, BasicTriageResponses)
    \/ \E l \in RequestLeadIds : GetSingleLead(l)

SpecCreate == InitSeeded /\ [][NextCreate]_vars

\* Booking requests running side by side, through the endpoint and through
\* the booking tool, for two leads and two overlapping slots
NextRace ==
    \/ \E l \in LeadIds : CreateSingleLead(l, LeadData(l))
    \/ \E S \in SUBSET SlotIds : CreateBulkSlots(S)
    \/ \E s \in SlotIds, l \in RequestLeadIds : BookSlotQuery(s, l)
    \/ \E p \in pending : BookSlotCommit(p)
    \/ \E w \in WhenStrs, l \in RequestLeadIds : BookAppointmentQuery(w, l)
    \/ \E p \in pending : BookAppointmentCommit(p)

SpecRace == Init /\ [][NextRace]_vars

\* bulk requests for one or more days, with any opening hours and a slot
\* duration that is negative, zero or positive
BulkRequests ==
    {BulkRequest(d1, d2, t1, t2, m) :
        d1 \in Days \cup {ValueError}, d2 \in Days, t1 \in 0..2, t2 \in 0..3, m \in (0 - 1)..2}

\* Bulk slot creation, one request after another, and bookings of the slots
NextBulk ==
    \/ \E request \in BulkRequests : StartBulkSlots(request)
    \/ BulkDateStep
    \/ BulkSlotStep
    \/ CreateSingleLead("L1", LeadData("L1"))
    \/ \E s \in SlotIds, l \in RequestLeadIds : BookAnAppointmentSlot(s, l)

\* a handler that has begun keeps running
SpecBulk ==
    /\ Init
    /\ [][NextBulk]_vars
    /\ WF_vars(BulkDateStep)
    /\ WF_vars(BulkSlotStep)

\* Leads coming in and being triaged, with every response the classifier may
\* give, while staff set statuses by hand
NextTriage ==
    \/ \E l \in LeadIds : CreateSingleLead(l, LeadData(l))
    \/ \E l \in LeadIds : RunTriageAgent(l, TriageResponses)
    \/ \E l \in RequestLeadIds : UpdateLeadStatusEndpoint(l, "responded")

SpecTriage == Init /\ [][NextTriage]_vars

----------------------------------------------------------------------------
(* Properties *)

\* the two callers that dispatch a tool by name with model-supplied parameters
ToolDispatchers == {"execute_tool_node", "handle_vapi_tool_calls"}

\* the slots, free or not, whose interval contains the requested time
Covering(ss, w) ==
    {s \in SlotIds : /\ ss[s].exists
                     /\ date_parse(w) # ValueError
                     /\ SlotStart(s) <= date_parse(w)
                     /\ SlotEnd(s) > date_parse(w)}

\* C1: a slot is booked at most once. The first booking of an available slot
\* (endpoint with an existing lead, or the booking tool when it is the only
\* free slot at the requested time) succeeds and marks it booked; every
\* later attempt is rejected as unavailable (409 from the endpoint, the
\* "not available" text from the tool when nothing else is free) and no
\* operation changes a booked slot's status, lead link, reason or method.
C1_SlotBookedAtMostOnce ==
    [][\A s \in SlotIds :
         /\ (slots[s].exists /\ slots[s].status = "booked") => slots'[s] = slots[s]
         /\ (resp'.op = "book_an_appointment_slot" /\ resp'.slot = s /\ slots[s].exists) =>
              /\ (slots[s].status = "available" /\ get_lead_by_id(leads, resp'.lead) # Null) =>
                    /\ resp'.result = "200"
                    /\ slots'[s].status = "booked"
                    /\ slots'[s].lead_id = resp'.lead
              /\ slots[s].status = "booked" => resp'.result = "409"
         /\ ( /\ resp'.op \in ToolDispatchers
              /\ resp'.tool = "book_appointment"
              /\ resp'.result \in {"book_ok", "book_unavailable"}
              /\ s \in Covering(slots, resp'.params.when) ) =>
              /\ ( /\ slots[s].status = "available"
                   /\ \A t \in Covering(slots, resp'.params.when) \ {s} :
                        slots[t].status # "available" ) =>
                    /\ resp'.result = "book_ok"
                    /\ resp'.slot = s
                    /\ slots'[s].status = "booked"
                    /\ slots'[s].lead_id = resp'.lead
              /\ (\A t \in Covering(slots, resp'.params.when) : slots[t].status # "available") =>
                    resp'.result = "book_unavailable"
              /\ resp'.result = "book_ok" =>
                    /\ slots[resp'.slot].status = "available"
                    /\ slots'[resp'.slot].status = "booked"
      ]_vars

\* C1 witness: a slot booked through the tool, then refused by the endpoint
C1_Witness ==
    /\ resp.op = "book_an_appointment_slot"
    /\ resp.result = "409"
    /\ slots[resp.slot].status = "booked"
    /\ slots[resp.slot].booked_by_method = "vapi_ai"

\* C2: whenever the model's response is missing, is not JSON or does not fit
\* the decision schema (next_action outside the three actions included), the
\* decision step leaves the fixed escalate_to_human decision in the state
\* and the run goes on to the escalation node: nothing is raised.
C2_MalformedResponseEscalates ==
    (resp.op = "decision_node" /\ resp.raw \in {r.name : r \in MalformedResponses}) =>
        /\ run.decision = FallbackDecision
        /\ run.decision.thought = FixedRationale
        /\ run.node = "escalate_to_human_node"

\* C2 witness: a next_action outside the three actions was answered
C2_Witness ==
    /\ resp.op = "decision_node"
    /\ resp.raw = "bad_action"
    /\ run.node = "escalate_to_human_node"

\* the transitions of a reply-agent run as the graph draws them
GraphTransitions ==
    {<<"idle", "decision_node">>,
     <<"decision_node", "execute_tool_node">>,
     <<"execute_tool_node", "decision_node">>,
     <<"decision_node", "send_reply_node">>,
     <<"send_reply_node", "END">>,
     <<"decision_node", "escalate_to_human_node">>,
     <<"escalate_to_human_node", "END">>,
     <<"END", "idle">>}

\* C3: a run only ever moves Deciding -> ExecutingTool -> Deciding,
\* Deciding -> Replying -> Done and Deciding -> Escalated -> Done: executing
\* a tool is always followed by a new decision, and nothing runs after
\* Replying or Escalated.
C3_OnlyGraphTransitions ==
    [][run'.node # run.node => <<run.node, run'.node>> \in GraphTransitions]_vars

\* C4: a book_appointment call dispatched by the reply agent or the voice
\* webhook for a known lead, with date, time and reason among the model's
\* parameters, reaches the booking tool whatever else the parameters hold
\* (a lead_id of another lead included), and a booking it makes is for the
\* caller's lead.
C4_BookingUsesCallersLead ==
    ( /\ resp.op \in ToolDispatchers
      /\ resp.tool = "book_appointment"
      /\ get_lead_by_id(leads, resp.lead) # Null
      /\ resp.params.kind = "dict"
      /\ BookKeys \subseteq resp.params.keys
      /\ resp.params.keys \subseteq BookKeys \cup {"lead_id"} ) =>
        /\ resp.result \in {"book_ok", "book_unavailable"}
        /\ resp.result = "book_ok" => slots[resp.slot].lead_id = resp.lead

\* the stage of a status along new -> (needs_immediate_attention | nurturing)
\* -> responded -> (converted | archived_*)
Stage(status) ==
    CASE status = "new" -> 0
      [] status \in {"needs_immediate_attention", "nurturing"} -> 1
      [] status = "responded" -> 2
      [] OTHER -> 3

\* the operations that are not the manual status-update endpoint
Automated(op) == op # "update_lead_status_endpoint"

\* C5 as stated: every status change made by an automated component moves
\* the lead to a later stage of the lifecycle.
C5_AutomatedChangesMoveForward ==
    [][\A l \in LeadIds :
         (leads[l].exists /\ leads'[l].status # leads[l].status /\ Automated(resp'.op)) =>
             Stage(leads'[l].status) > Stage(leads[l].status)
      ]_vars

\* C5 amended: every status change made by an automated component is one of
\* these: triage sets needs_immediate_attention or nurturing, the inbound
\* webhook moves nurturing to responded, the scheduler sets
\* archived_no_response on a lead its pass loaded as nurturing, the reply
\* agent's escalation sets needs_immediate_attention and the booking tool sets
\* converted; all but the webhook write whatever status the lead has by then.
C5_AutomatedChanges ==
    [][\A l \in LeadIds :
         (leads[l].exists /\ leads'[l].status # leads[l].status /\ Automated(resp'.op)) =>
             CASE resp'.op = "run_triage_agent" ->
                    leads'[l].status \in {"needs_immediate_attention", "nurturing"}
               [] resp'.op = "handle_email_reply" ->
                    leads[l].status = "nurturing" /\ leads'[l].status = "responded"
               [] resp'.op = "nurture_lead_step" ->
                    /\ job.active
                    /\ l = job.order[job.i]
                    /\ leads'[l].status = "archived_no_response"
               [] resp'.op = "escalate_to_human_node" ->
                    leads'[l].status = "needs_immediate_attention"
               [] resp'.op \in ToolDispatchers ->
                    resp'.tool = "book_appointment" /\ leads'[l].status = "converted"
               [] OTHER -> FALSE
      ]_vars

\* C5 witness: a lead that had answered (its reply is in the log) and was
\* converted by a booking has been escalated back to needs_immediate_attention
C5_Witness ==
    /\ resp.op = "escalate_to_human_node"
    /\ leads["L1"].status = "needs_immediate_attention"
    /\ \E i \in DOMAIN comms : comms[i].direction = "incoming" /\ comms[i].lead_id = "L1"
    /\ \E s \in SlotIds : slots[s].status = "booked" /\ slots[s].lead_id = "L1"

\* C6 as stated: no operation sets a lead's status to new once it has left new.
C6_NeverBackToNew ==
    [][\A l \in LeadIds :
         (leads[l].exists /\ leads[l].status # "new") => leads'[l].status # "new"
      ]_vars

\* C6 amended: once a lead has left new, only the manual status-update
\* endpoint sets it to new again; no automated operation does.
C6_OnlyManualBackToNew ==
    [][\A l \in LeadIds :
         (leads[l].exists /\ leads[l].status # "new" /\ leads'[l].status = "new") =>
             resp'.op = "update_lead_status_endpoint"
      ]_vars

\* C6 witness: a lead that triage had moved to nurturing is new again
C6_Witness ==
    /\ resp.op = "update_lead_status_endpoint"
    /\ resp.result = "200"
    /\ leads["L1"].status = "new"
    /\ leads["L1"].nurture_attempts = 1

C8_ResultAppendedToHistory ==
    [][(run.node = "execute_tool_node" /\ run'.node = "decision_node") =>
          \E i \in DOMAIN run'.conversation_history :
              run'.conversation_history[i][2] = resp'.result
      ]_vars

\* C8 amended: a run never changes its conversation history. After a tool
\* ran the agent decides again, and the next decision is shown the result of
\* the most recent known tool only (kept in kb_info or tool_output, the
\* other one cleared); the result of an unknown tool is kept nowhere.
C8_ResultKeptInToolContext ==
    [][/\ (run.node # "idle" /\ run'.node # "idle") =>
              run'.conversation_history = run.conversation_history
       /\ (run.node = "execute_tool_node" /\ run'.node = "decision_node") =>
              /\ run'.decision = NoDecision
              /\ previous_output_context(run') =
                    IF run.decision.tool_to_use \in KnownTools
                    THEN resp'.result
                    ELSE previous_output_context(run)
      ]_vars

\* C8 witness: a knowledge-base search has run after a reply was logged; its
\* result is the tool context and the history still holds the log only
C8_Witness ==
    /\ resp.op = "execute_tool_node"
    /\ resp.tool = "search_knowledge_base"
    /\ run.node = "decision_node"
    /\ run.kb_info = resp.result
    /\ run.tool_output = Null
    /\ Len(run.conversation_history) > 0
    /\ \A i \in DOMAIN run.conversation_history : run.conversation_history[i][2] # resp.result

\* C9: the reply node sends one email, appends exactly one outgoing-auto
\* email Communication, leaves every lead's status and counter unchanged and
\* ends the run.
C9_ReplySendsAndLogsOnce ==
    [][resp'.op = "send_reply_node" =>
          /\ resp'.mails = 1
          /\ comms' = Append(comms, ReplyComm(run.lead_id))
          /\ leads' = leads
          /\ run'.node = "END"
      ]_vars

\* C10: the escalation node sets the lead's status to
\* needs_immediate_attention and its ai_summary to the decision's rationale,
\* changes nothing else of any lead, sends no message, writes no
\* Communication and ends the run.
C10_EscalationFlagsLead ==
    [][resp'.op = "escalate_to_human_node" =>
          /\ leads' = [leads EXCEPT ![run.lead_id].status = "needs_immediate_attention",
                                    ![run.lead_id].ai_summary = run.decision.thought]
          /\ resp'.mails = 0
          /\ comms' = comms
          /\ slots' = slots
          /\ run'.node = "END"
      ]_vars

\* C10 witness: the fallback decision has been escalated
C10_Witness ==
    /\ resp.op = "escalate_to_human_node"
    /\ run.node = "END"
    /\ leads["L1"].status = "needs_immediate_attention"
    /\ leads["L1"].ai_summary = FixedRationale

\* the results each function of the tool set can return
ToolResults(tool) ==
    CASE tool = "search_knowledge_base" -> {"kb_found", "kb_none"}
      [] tool = "get_plan_details" -> get_plan_details
      [] tool = "get_available_slots" -> {"slots_none", "slots_list"}
      [] tool = "book_appointment" -> {"book_ok", "book_unavailable"}
      [] OTHER -> {ToolNotFound}

\* C11: a use_tool decision is dispatched by name to one function of the
\* fixed tool set: the result comes from the function of that name (or the
\* call raises before it runs) and only book_appointment changes a slot or
\* a lead. For a name outside the set no function is called, no lead, slot
\* or Communication changes, nothing is sent and the agent is back at the
\* decision node.
C11_DispatchToOneTool ==
    [][resp'.op = "execute_tool_node" =>
          /\ resp'.result \in ToolResults(run.decision.tool_to_use) \cup {TypeError}
          /\ comms' = comms
          /\ run.decision.tool_to_use # "book_appointment" =>
                (leads' = leads /\ slots' = slots /\ resp'.mails = 0)
          /\ run.decision.tool_to_use \notin KnownTools =>
                /\ resp'.result = ToolNotFound
                /\ run'.node = "decision_node"
                /\ run'.decision = NoDecision
      ]_vars

\* C11 witness: a tool outside the set was asked for while a slot was free
\* to book, and the run is deciding again
C11_Witness ==
    /\ resp.op = "execute_tool_node"
    /\ resp.tool = "send_brochure"
    /\ resp.result = ToolNotFound
    /\ run.node = "decision_node"
    /\ slots["S1"].exists /\ slots["S1"].status = "available"

\* the days a lead must have waited before the step that follows counter
\* value a: one, two and three days
StepThreshold(a) == a

\* the channel of the step that follows counter value a
StepChannel(a) ==
    CASE a = 1 -> "sms"
      [] a = 2 -> "phone_call"
      [] OTHER -> "email"

\* lead l is due for its next follow-up: nurturing, the counter at a step and
\* the step's threshold elapsed
Due(ls, l) ==
    /\ ls[l].exists
    /\ ls[l].status = "nurturing"
    /\ ls[l].nurture_attempts \in 1..3
    /\ ls[l].age > StepThreshold(ls[l].nurture_attempts)

\* the automated messages logged for lead l
AutoMessages(cs, l) ==
    SelectSeq(cs, LAMBDA c : c.lead_id = l /\ c.direction = "outgoing_auto")

\* C12: a scheduler pass sends a lead a follow-up only if the lead is
\* nurturing, its counter is the step's counter (1 for the SMS, 2 for the
\* call, 3 for the final email) and more than the step's threshold has
\* passed since updated_at, and the message is that step's; a lead for which
\* this does not hold is sent nothing and keeps its counter.
C12_FollowUpOnlyWhenDue ==
    [][resp'.op = "nurture_and_recall_job" =>
          \A l \in LeadIds :
             /\ Len(AutoMessages(comms', l)) > Len(AutoMessages(comms, l)) =>
                   /\ Due(leads, l)
                   /\ AutoMessages(comms', l)[Len(AutoMessages(comms', l))].type =
                          StepChannel(leads[l].nurture_attempts)
             /\ ~Due(leads, l) =>
                   /\ AutoMessages(comms', l) = AutoMessages(comms, l)
                   /\ leads'[l].nurture_attempts = leads[l].nurture_attempts
      ]_vars

\* C12 witness: a pass has run over a nurturing lead at counter 2 whose two
\* days have not passed; it was sent nothing and its counter is still 2
C12_Witness ==
    /\ resp.op = "nurture_and_recall_job"
    /\ leads["L1"].status = "nurturing"
    /\ leads["L1"].nurture_attempts = 2
    /\ leads["L1"].age = 1
    /\ AutoMessages(comms, "L1") = <<>>

\* C13: for a lead that is due, a pass attempts the step's send and ends it
\* in one of two ways: the send succeeded, the counter is one higher and one
\* Communication is logged, or the send failed, the counter and the log are
\* as before and the step is left for a later pass.
C13_FailedSendKeepsCounter ==
    [][resp'.op = "nurture_and_recall_job" =>
          \A l \in LeadIds :
             Due(leads, l) =>
                \/ /\ leads'[l].nurture_attempts = leads[l].nurture_attempts + 1
                   /\ Len(AutoMessages(comms', l)) = Len(AutoMessages(comms, l)) + 1
                \/ /\ leads'[l].nurture_attempts = leads[l].nurture_attempts
                   /\ AutoMessages(comms', l) = AutoMessages(comms, l)
                   /\ resp'.result = "done"
      ]_vars

C16_ExhaustedLeadArchived ==
    [][resp'.op = "nurture_and_recall_job" =>
          \A l \in LeadIds :
             /\ (leads[l].exists /\ leads[l].status = "nurturing"
                   /\ leads[l].nurture_attempts >= 4) =>
                   /\ leads'[l].status = "archived_no_response"
                   /\ leads'[l].nurture_attempts = leads[l].nurture_attempts
                   /\ AutoMessages(comms', l) = AutoMessages(comms, l)
             /\ leads[l].status = "archived_no_response" => leads'[l] = leads[l]
      ]_vars

\* C17: what a pass commits for a nurturing lead does not depend on the
\* other leads of the pass: it is what a pass over that lead alone commits,
\* whether or not the handling of another lead failed.
C17_FailureStaysWithItsLead ==
    [][resp'.op = "nurture_and_recall_job" =>
          \A l \in nurturing_leads(leads) :
             \E sent \in [{l} -> BOOLEAN], phone \in [{l} -> BOOLEAN] :
                leads'[l] = nurture_loop(leads, comms, <<l>>, 1, sent, phone).leads[l]
      ]_vars


\* C18: a triage run that completes leaves the lead needs_immediate_attention
\* with its nurture counter as it was when the classification is an
\* emergency, and otherwise nurturing with nurture_attempts = 1
C18_TriageSetsStatusAndCounter ==
    [][(resp'.op = "run_triage_agent" /\ resp'.result \in {"emergency", "nurture"})
       => LET l == resp'.lead
          IN  IF resp'.state.is_emergency
              THEN /\ leads'[l].status = "needs_immediate_attention"
                   /\ leads'[l].nurture_attempts = leads[l].nurture_attempts
              ELSE /\ leads'[l].status = "nurturing"
                   /\ leads'[l].nurture_attempts = 1]_vars

\* one lead triaged as an emergency, counter untouched, and the other just
\* triaged into nurturing with its counter at 1
C18_Witness ==
    /\ resp.op = "run_triage_agent"
    /\ resp.lead = "L2"
    /\ resp.result = "nurture"
    /\ ~resp.state.is_emergency
    /\ leads["L2"].status = "nurturing"
    /\ leads["L2"].nurture_attempts = 1
    /\ leads["L1"].status = "needs_immediate_attention"
    /\ leads["L1"].nurture_attempts = 0

MalformedTriageNames == {r.name : r \in MalformedTriageResponses}

C20_SearchOnlyWhenNotEmergency ==
    resp.op = "run_triage_agent"
    => /\ resp.state.searched
            => (~resp.state.is_emergency /\ resp.state.kb_search_query \notin {Null, ""})
       /\ resp.state.is_emergency => ~resp.state.searched


\* C21: a triage run's three effects (mail sent, Communication persisted,
\* status committed) happen together or not at all: no run commits the status
\* or persists the Communication without the mail having gone out
C21_TriageEffectsAllOrNone ==
    [][(resp'.op = "run_triage_agent" /\ (leads' # leads \/ comms' # comms))
       => resp'.mails = 1]_vars

\* C22: for a lead whose inquiry is empty the classification is
\* General_Follow_Up and not an emergency, and the lead becomes nurturing with
\* nurture_attempts = 1
C22_EmptyInquiryIsGeneralFollowUp ==
    (/\ resp.op = "run_triage_agent"
     /\ resp.result # "no_lead"
     /\ leads[resp.lead].inquiry_notes = "")
    => /\ resp.state.category = "General_Follow_Up"
       /\ ~resp.state.is_emergency
       /\ leads[resp.lead].status = "nurturing"
       /\ leads[resp.lead].nurture_attempts = 1


\* C23: a reply addressed to replies+<lead-id>@domain with the id of an
\* existing lead is logged as one incoming email for that lead and the reply
\* agent is scheduled for it; an address without that pattern is answered 400
\* and an unknown lead id 404, with nothing written, no status changed and no
\* agent run scheduled
C23_RepliesAttributedByAddress ==
    [][resp'.op = "handle_email_reply" =>
          LET l == resp'.lead
              pattern == resp'.raw = "replies" /\ l # Null
          IN  /\ ~pattern => resp'.result = "400"
              /\ (pattern /\ get_lead_by_id(leads, l) = Null) => resp'.result = "404"
              /\ (pattern /\ get_lead_by_id(leads, l) # Null) =>
                    /\ resp'.result = "200"
                    /\ comms' = Append(comms, Comm(l, "email", "incoming", "user_reply"))
                    /\ replyTasks' = replyTasks \cup {l}
              /\ resp'.result # "200" =>
                    /\ comms' = comms
                    /\ leads' = leads
                    /\ replyTasks' = replyTasks
      ]_vars

\* lead l has answered: the log holds an incoming message of it
Replied(cs, l) == \E i \in DOMAIN cs : cs[i].lead_id = l /\ cs[i].direction = "incoming"

\* the follow-ups of the nurture sequence logged for lead l
FollowUps(cs, l) ==
    SelectSeq(cs, LAMBDA c : c.lead_id = l /\ c.direction = "outgoing_auto"
                             /\ c.content \in {"follow_up_sms", "follow_up_call",
                                               "follow_up_email"})

C25_WritersNotSerialised ==
    [][/\ (resp'.op = "nurture_lead_step" /\ leads[resp'.lead].nurture_attempts >= 4)
          => leads'[resp'.lead].status = "archived_no_response"
       /\ resp'.op = "escalate_to_human_node"
          => leads'[resp'.lead].status = "needs_immediate_attention"
      ]_vars

\* a lead that has replied, and was responded in the table when the pass
\* reached it, ends as archived_no_response
C25_Witness ==
    /\ resp.op = "nurture_lead_step"
    /\ resp.raw = "responded"
    /\ resp.result = "archive"
    /\ Replied(comms, resp.lead)
    /\ leads[resp.lead].status = "archived_no_response"


\* the slots booked for lead l
BookedFor(ss, l) == {s \in SlotIds : ss[s].exists /\ ss[s].status = "booked" /\ ss[s].lead_id = l}

\* the operations of the scheduler, the inbound-reply webhook, the reply
\* agent and the booking tool's callers
HandsOffComponents ==
    {"nurture_and_recall_job", "nurture_query", "nurture_lead_step", "handle_email_reply",
     "run_reply_analyzer", "decision_node", "execute_tool_node", "send_reply_node",
     "escalate_to_human_node", "run_reply_analyzer_end", "handle_vapi_tool_calls"}

\* C26: a lead in needs_immediate_attention is left to staff: the scheduler,
\* the inbound-reply webhook, the reply agent and the booking tool do not
\* change its status, send it a message or book for it
C26_EscalatedLeadLeftToStaff ==
    [][\A l \in LeadIds :
         (leads[l].exists /\ leads[l].status = "needs_immediate_attention"
          /\ resp'.op \in HandsOffComponents)
         => /\ leads'[l].status = "needs_immediate_attention"
            /\ AutoMessages(comms', l) = AutoMessages(comms, l)
            /\ resp'.lead = l => resp'.mails = 0
            /\ BookedFor(slots', l) = BookedFor(slots, l)
      ]_vars

\* C27: the communication log is append-only: an operation leaves it as it
\* is or adds exactly one entry at its end, and every entry already there
\* stays as it was written
C27_LogAppendOnly ==
    [][\/ comms' = comms
       \/ /\ Len(comms') = Len(comms) + 1
          /\ SubSeq(comms', 1, Len(comms)) = comms
      ]_vars

\* a staff note followed by a lead's reply, both in the log as written
C27_Witness ==
    /\ Len(comms) = 2
    /\ comms[1] = Comm("L1", "note", "outgoing_manual", "note")
    /\ comms[2] = Comm("L1", "email", "incoming", "user_reply")
    /\ resp.op = "handle_email_reply"


\* C28: the booking endpoint answers 404 for a slot id that does not exist,
\* 409 for a slot that is not available and 404 for a lead that does not
\* exist, and a rejected request changes no slot and no lead
C28_BookingRejections ==
    [][resp'.op = "book_an_appointment_slot" =>
          LET s == resp'.slot
              l == resp'.lead
          IN  /\ ~slots[s].exists => resp'.result = "404"
              /\ (slots[s].exists /\ slots[s].status # "available") => resp'.result = "409"
              /\ (slots[s].exists /\ slots[s].status = "available"
                  /\ get_lead_by_id(leads, l) = Null) => resp'.result = "404"
              /\ resp'.result # "200" => (slots' = slots /\ leads' = leads)
      ]_vars

\* a request for a slot that another lead's booking holds was answered 409
\* and the slot is still that booking's
C28_Witness ==
    /\ resp.op = "book_an_appointment_slot"
    /\ resp.result = "409"
    /\ resp.lead = "L1"
    /\ slots[resp.slot].status = "booked"
    /\ slots[resp.slot].booked_by_method = "vapi_ai"


\* the three submitted properties of a lead row
Submitted3(row) == LeadCreate(row.first_name, row.email, row.inquiry_notes)

\* the three properties stay what they are on every existing lead, and a
\* fetch by id returns them as schemas.Lead renders the row
KeptAndFetched ==
    /\ \A l \in LeadIds : leads[l].exists => Submitted3(leads'[l]) = Submitted3(leads[l])
    /\ (resp'.op = "get_single_lead" /\ resp'.result = "200")
           => resp'.raw = LeadOut(leads[resp'.lead])

\* C29 as stated: a lead created through the create-lead operation and then
\* fetched by id returns the same first_name, email and inquiry text that
\* were submitted, and no later operation changes these three fields (the
\* row a successful create writes reads back as the submitted body, every
\* step keeps the three fields, a fetch returns the row's)
C29_RoundTripIdentical ==
    [][/\ (resp'.op = "create_single_lead" /\ resp'.result = "200")
              => LeadOut(leads'[resp'.lead]) = resp'.raw
       /\ KeptAndFetched
      ]_vars

\* C29 amended: the fetched first_name and inquiry text are the submitted
\* ones; the fetched email is the submitted one without surrounding blanks,
\* its local part as given and every character from the "@" on lower-cased;
\* no later operation changes the three fields
C29_RoundTripNormalisedEmail ==
    [][/\ (resp'.op = "create_single_lead" /\ resp'.result = "200")
              => LET out == LeadOut(leads'[resp'.lead])
                     given == resp'.raw
                     sub == strip(given.email)
                 IN  /\ out.first_name = given.first_name
                     /\ out.inquiry_notes = given.inquiry_notes
                     /\ Len(out.email) = Len(sub)
                     /\ \A i \in 1..Len(sub) :
                          out.email[i] = IF \E j \in 1..i : sub[j] = "@"
                                         THEN Lower(sub[i]) ELSE sub[i]
       /\ KeptAndFetched
      ]_vars

\* the lead submitted without a first name under a@X was fetched after its
\* triage run and a reply by mail: the email came back as a@x
C29_Witness ==
    /\ resp.op = "get_single_lead"
    /\ resp.result = "200"
    /\ resp.raw = LeadCreate(Null, <<"a", "@", "x">>, "")
    /\ leads[resp.lead].status = "responded"


\* the available slots whose interval contains the requested time
AvailableCovering(ss, w) == {s \in Covering(ss, w) : ss[s].status = "available"}

\* C30: the booking tool, when an available slot covers the requested date
\* and time, marks exactly one such slot booked for the caller's lead and
\* sets that lead's status to converted, leaving every other slot and lead
\* as it was; when no available slot matches, or the date and time cannot be
\* parsed, it returns the unavailable message and changes no slot and no lead
C30_BookingTool ==
    [][(/\ resp'.op \in ToolDispatchers
        /\ resp'.tool = "book_appointment"
        /\ resp'.result \in {"book_ok", "book_unavailable"})
       => LET free == AvailableCovering(slots, resp'.params.when)
              l == resp'.lead
          IN  IF free # {}
              THEN /\ resp'.result = "book_ok"
                   /\ resp'.slot \in free
                   /\ slots'[resp'.slot].status = "booked"
                   /\ slots'[resp'.slot].lead_id = l
                   /\ \A s \in SlotIds \ {resp'.slot} : slots'[s] = slots[s]
                   /\ \A k \in LeadIds :
                        IF k = l /\ leads[k].exists
                        THEN leads'[k].status = "converted"
                        ELSE leads'[k] = leads[k]
              ELSE /\ resp'.result = "book_unavailable"
                   /\ slots' = slots
                   /\ leads' = leads
      ]_vars

\* the voice tool booked one of two free overlapping slots for an existing
\* lead: that lead is converted and the other slot is still available
C30_Witness ==
    /\ resp.op = "handle_vapi_tool_calls"
    /\ resp.tool = "book_appointment"
    /\ resp.result = "book_ok"
    /\ resp.params.when = "t1"
    /\ resp.lead \in LeadIds
    /\ leads[resp.lead].status = "converted"
    /\ slots[resp.slot].status = "booked"
    /\ slots[resp.slot].lead_id = resp.lead
    /\ \E s \in SlotIds \ {resp.slot} : slots[s].exists /\ slots[s].status = "available"

\* C32: a slot is booked if and only if it carries a lead id, and that lead
\* id is the id of an existing lead; an available slot has no lead link, no
\* reason and no booking method
C32_BookedIffLinkedToLead ==
    \A s \in SlotIds :
        slots[s].exists =>
            /\ (slots[s].status = "booked") <=> (slots[s].lead_id # Null)
            /\ slots[s].status = "booked" => get_lead_by_id(leads, slots[s].lead_id) # Null
            /\ slots[s].status = "available" =>
                  /\ slots[s].lead_id = Null
                  /\ slots[s].reason_for_visit = Null
                  /\ slots[s].booked_by_method = Null

\* the components that send messages on their own and log them
AutoSenders == {"run_triage_agent", "send_reply_node", "nurture_lead_step"}

\* C36: every outgoing-auto Communication record corresponds to a message
\* whose send succeeded: no triage run, reply-agent run or scheduler pass
\* logs an outgoing message when the send failed
C36_LoggedMeansSent ==
    [][(/\ resp'.op \in AutoSenders
        /\ Len(comms') = Len(comms) + 1
        /\ comms'[Len(comms')].direction = "outgoing_auto")
       => resp'.mails >= 1]_vars

\* the leads a pass in progress has loaded
Loaded(j) == {j.order[i] : i \in 1..Len(j.order)}

\* C35: a scheduler pass changes nothing about leads whose status is not
\* nurturing: the pass loads none of them, and each of its steps leaves the
\* status, the counter and the communications of every lead it did not load
\* as they were, and sends them nothing
C35_PassLeavesOthersAlone ==
    [][/\ resp'.op = "nurture_query" =>
            /\ \A l \in LeadIds : leads[l].status # "nurturing" => l \notin Loaded(job')
            /\ leads' = leads
            /\ comms' = comms
       /\ resp'.op = "nurture_lead_step" =>
            \A l \in LeadIds \ Loaded(job) :
                /\ resp'.lead # l
                /\ leads'[l] = leads[l]
                /\ get_communications_by_lead_id(comms', l)
                     = get_communications_by_lead_id(comms, l)
      ]_vars

\* a pass has begun and loaded the one nurturing lead, which is due to be
\* archived; the other lead has used up its attempts as well but had
\* answered before and is responded: the pass did not load it
C35_Witness ==
    /\ resp.op = "nurture_query"
    /\ job.active
    /\ Loaded(job) = {"L1"}
    /\ leads["L1"].nurture_attempts >= 4
    /\ leads["L2"].status = "responded"
    /\ leads["L2"].nurture_attempts >= 4
    /\ Replied(comms, "L2")

\* C34: a lead's nurture_attempts is between 0 and 4 in every reachable state
\* and never decreases; it becomes 1 only through the non-emergency triage
\* branch and afterwards grows only by single increments made by the
\* scheduler at the values 1, 2 and 3
C34_CounterWithinSequence ==
    [][\A l \in LeadIds :
         LET before == leads[l].nurture_attempts
             after == leads'[l].nurture_attempts
         IN  /\ before \in 0..4
             /\ after \in 0..4
             /\ after >= before
             /\ (after # before /\ after = 1)
                   => (resp'.op = "run_triage_agent" /\ resp'.result = "nurture")
             /\ (after # before /\ after # 1)
                   => /\ resp'.op \in {"nurture_lead_step", "nurture_and_recall_job"}
                      /\ before \in {1, 2, 3}
                      /\ after = before + 1
      ]_vars

\* C33: every lead in nurturing eventually leaves nurturing, given that
\* scheduler passes keep running, time advances and sends eventually succeed
C33_NurturingLeadLeaves ==
    \A l \in LeadIds :
        (leads[l].exists /\ leads[l].status = "nurturing")
            ~> (leads[l].status # "nurturing")

\* C37: after any sequence of create-lead requests and CSV uploads handled
\* one at a time, no two leads share an email address
C37_NoSharedEmail ==
    \A k, l \in LeadIds :
        (k # l /\ leads[k].exists /\ leads[l].exists) => leads[k].email # leads[l].email

\* the requests that commit a booking and report its success
BookingCommits == {"book_slot_commit", "book_appointment_commit"}

\* C31: when two booking requests for the same available slot run
\* interleaved (endpoint or booking tool), at most one of them reports
\* success: a booking is only reported for a slot that was still available
\* when it was committed, and the slot ends linked to the lead whose request
\* reported success
C31_OneBookingWins ==
    [][/\ resp'.op \in BookingCommits =>
            /\ slots[resp'.slot].status = "available"
            /\ slots'[resp'.slot].lead_id = resp'.lead
       /\ \A s \in SlotIds :
            (slots[s].exists /\ slots[s].status = "booked") => slots'[s].lead_id = slots[s].lead_id
      ]_vars

\* C38: every lead created by create_lead gets a public lead id different
\* from that of every existing lead, for any sequence and any interleaving
\* of create requests: no two rows carry the same lead_id, and every row
\* created by a request has one of the form BS-LID-<number>
C38_PublicIdsDistinct ==
    /\ \A k, l \in LeadIds :
         (k # l /\ leads[k].exists /\ leads[l].exists) => leads[k].lead_id # leads[l].lead_id
    /\ (resp.op = "create_lead_commit" /\ resp.result = "200")
          => /\ leads[resp.lead].lead_id[1] = "BS-LID"
             /\ leads[resp.lead].lead_id[2] >= 1

\* two create requests had read the same last lead id; the first was
\* committed and the second, about to write the same public id, ended in
\* the integrity error: one lead exists
C38_Witness ==
    /\ resp.op = "create_lead_commit"
    /\ resp.result = "500"
    /\ pending = {}
    /\ Cardinality(Rows(leads)) = 1
    /\ \E l \in Rows(leads) : leads[l].lead_id = PublicId("BS-LID", 1)

\* C39: bulk slot creation terminates for every request with well-formed
\* dates and times, including a slot duration of zero or a negative number
\* of minutes: a handler that has begun comes to its end
C39_BulkCreationTerminates == bulk.active ~> ~bulk.active

====
